---- MODULE Spec2Model ----
(***************************************************************************)
(* A model of the Windows host of the Chrome bridge:                       *)
(*   - CDPHost  (src/unnamed/part_001, lines 1052-1805): the tool          *)
(*     dispatcher and its routing map requestToClient;                     *)
(*   - CDPClient (src/unnamed/part_001, lines 9-976): the CDP session:     *)
(*     command correlation, timeouts, socket life cycle, event queue,      *)
(*     document version and network-request registry.                      *)
(* and of the proxy on the client side of the bridge:                      *)
(*   - MCPServer (src/wsl-bridge/src/mcp-server.js, lines 595-896): the    *)
(*     stdio server that forwards tools/call requests to the host.         *)
(* Each specification below drives one part of the program; the variables  *)
(* of the other parts stay at their initial values.                        *)
(***************************************************************************)
EXTENDS Integers, Sequences, FiniteSets, TLC

VARIABLES
    \* ---- CDPHost ----
    clients,          \* this.clients: the ids of the connected clients
    clientCounter,    \* this.clientCounter
    requestToClient,  \* this.requestToClient: String(envelope id) -> client id
    calls,            \* the tool calls dispatched so far (handleToolCall activations)
    delivered,        \* the envelopes written with client.send, with the call that produced them
    raced,            \* history: pairs <<k1, k2>> of calls under one envelope id that were
                      \* both outstanding when the client of k1 disconnected
    \* ---- CDPClient ----
    ws,               \* this.ws: the bound socket (an index of socks), 0 for null
    targetId,         \* this.targetId, "null" for null
    socks,            \* every WebSocket created so far: [state (readyState), target,
                      \* opened (it reached OPEN)]
    messageId,        \* this.messageId
    pendingCommands,  \* this.pendingCommands: command id -> the send call holding its completers
    timers,           \* the command ids whose 30 s setTimeout is armed
    sends,            \* the send calls made so far and how each settled
    answered,         \* the send calls the browser has answered
    eventQueue,       \* this.eventQueue
    networkRequests,  \* this.networkRequests, in insertion order
    domainsEnabled,   \* this.domainsEnabled
    eventListeners,   \* this.eventListeners: the registered callbacks, [method, w: the
                      \* wait call that registered it]
    docVersion,       \* this.docVersion
    rootNodeId,       \* this.rootNodeId, 0 for null
    conns,            \* the connectToTarget calls in progress and where each stands
    waits,            \* the wait calls made so far (waitForEvent and the helpers built on
                      \* it, waitForNetworkIdle) and where each stands
    uploads,          \* history: the handleFileUpload calls: [args: args.files, files: the
                      \* files passed to setFileInputFiles, sent: the send call made]
    results,          \* history: the results tool handlers returned to handleToolCall
    refs,             \* history: the node references returned by querySelector
    nEvents,          \* history: the number of CDP events handled
    \* ---- target discovery ----
    targets,          \* the targets the browser has: [id, type]
    listed,           \* the body of the last answer of /json/list, in the order given
    resolutions,      \* history: what each numeric reference was resolved to
    \* ---- MCPServer ----
    bridgeWs,         \* this.ws of the proxy: an index of bridgeSocks, 0 for null
    connected,        \* this.connected
    pendingRequests,  \* this.pendingRequests: the keys of the map, in insertion order
    requestTimers,    \* the request ids whose 60 s setTimeout is armed
    bridgeSocks,      \* every WebSocket the proxy created: its readyState
    connects,         \* the connectWebSocket promises: [sock, state, timeout: the 5 s
                      \* timer is armed, call: the request awaiting it, 0 for start()]
    forwarded,        \* the requests written with this.ws.send: [id, sock]
    stdout,           \* the JSON-RPC messages written to process.stdout
    nRead,            \* the number of tools/call requests read from stdin
    nReplies,         \* history: the number of envelopes received from the host
    unwritten,        \* history: the requests whose screenshot fs.writeFileSync did not store
    exited            \* the process has terminated

hostVars == <<clients, clientCounter, requestToClient, calls, delivered, raced>>

cdpVars == <<ws, targetId, socks, messageId, pendingCommands, timers, sends, answered,
             eventQueue, networkRequests, domainsEnabled, eventListeners, docVersion,
             rootNodeId, conns, waits, uploads, results, refs, nEvents>>

targetVars == <<targets, listed, resolutions>>

proxyVars == <<bridgeWs, connected, pendingRequests, requestTimers, bridgeSocks, connects,
               forwarded, stdout, nRead, nReplies, unwritten, exited>>

vars == <<hostVars, cdpVars, targetVars, proxyVars>>

\* MCPServer after its constructor (mcp-server.js 596-602), before start().
InitProxyVars ==
    /\ bridgeWs = 0
    /\ connected = FALSE
    /\ pendingRequests = << >>
    /\ requestTimers = {}
    /\ bridgeSocks = << >>
    /\ connects = << >>
    /\ forwarded = {}
    /\ stdout = << >>
    /\ nRead = 0
    /\ nReplies = 0
    /\ unwritten = {}
    /\ exited = FALSE

----------------------------------------------------------------------------
\* Bounds of the model.
MaxClients == 2     \* connections accepted
MaxCalls == 3       \* tool-call envelopes received
CmdSockets == 1     \* SpecCmd: WebSockets created, connectToTarget calls in progress included
CmdSends == 2       \* SpecCmd: send calls
CmdEvents == 1      \* SpecCmd: CDP events delivered
DocSockets == 2     \* SpecDoc: WebSockets created, connectToTarget calls in progress included
DocSends == 3       \* SpecDoc: send calls
DocEvents == 2      \* SpecDoc: CDP events delivered
CapEvents == 1002   \* SpecCap: CDP events delivered
RespRequests == 502 \* SpecResp: requests announced
RespResponses == 2  \* SpecResp: responses announced
RespWaits == 1      \* SpecResp: waitForResponse calls
IdleWaits == 2      \* SpecIdle: waitForNetworkIdle calls
IdleEvents == 3     \* SpecIdle: CDP events delivered
LoadWaits == 2      \* SpecLoad: wait calls
LoadEvents == 2     \* SpecLoad: CDP events delivered
DialogWaits == 2    \* SpecDialog: wait calls
DialogEvents == 2   \* SpecDialog: CDP events delivered
MaxTargets == 3     \* SpecTargets: targets of the browser
TabSockets == 2     \* SpecTabs: WebSockets created, calls fetching the target list included
TabCalls == 2       \* SpecTabs: tool calls
TabEvents == 1      \* SpecTabs: CDP events delivered
ReuseCalls == 1     \* SpecReuse: tool calls made while a socket is open
ReuseEvents == 1    \* SpecReuse: CDP events delivered
LostCalls == 2      \* SpecLost: tool calls made after the bound socket was closed
MaxParts == 5       \* SpecUpload: parts of a path between its slashes
MaxFiles == 2       \* SpecUpload: files of one file_upload call
UploadCalls == 1    \* SpecUpload: file_upload calls
IdSockets == 2      \* SpecIds: WebSockets created, connectToTarget calls in progress included
IdSends == 3        \* SpecIds: send calls
StaleCalls == 1     \* SpecStale: tool calls that switch the session to another tab
StaleEvents == 1    \* SpecStale: CDP events delivered
GoneCalls == 1      \* SpecGone: tool calls that switch the session to another tab
GoneEvents == 4     \* SpecGone: CDP events delivered
ShotCalls == 3      \* SpecShot: screenshot calls
SettleWaits == 2    \* SpecSettle: wait calls
SettleEvents == 1   \* SpecSettle: CDP events delivered
ZeroCalls == 2      \* SpecZero: tool calls made while a socket is open
MaxRequests == 2    \* SpecProxy: tools/call requests read from stdin
MaxReplies == 2     \* SpecProxy: envelopes received from the host
ReplayWaits == 2    \* SpecReplay: wait calls
ReplayEvents == 1   \* SpecReplay: CDP events delivered
RouteClients == 2   \* SpecRoutes: connections accepted
RouteCalls == 2     \* SpecRoutes: tool-call envelopes received
BothCalls == 3      \* SpecBoth: tool calls made while no socket is open
BusyWaits == 1      \* SpecBusy: waitForNetworkIdle calls
BusyEvents == 4     \* SpecBusy: CDP events delivered
ThrowWaits == 2     \* SpecThrow: waitForResponse calls
ThrowEvents == 2    \* SpecThrow: CDP events delivered

----------------------------------------------------------------------------
\* Maps (JavaScript Map) as functions with a finite domain.
EmptyMap == << >>
MapHas(m, k) == k \in DOMAIN m
MapSet(m, k, v) == [x \in (DOMAIN m) \cup {k} |-> IF x = k THEN v ELSE m[x]]
MapDelete(m, k) == [x \in (DOMAIN m) \ {k} |-> m[x]]

----------------------------------------------------------------------------
\* Strings as sequences of characters, with the String methods toWindowsPath uses.

\* String.prototype.startsWith
startsWith(str, prefix) ==
    Len(str) >= Len(prefix) /\ SubSeq(str, 1, Len(prefix)) = prefix

\* String.prototype.split with a separator of one character
RECURSIVE split(_, _)
split(str, sep) ==
    IF \A i \in 1..Len(str) : str[i] # sep THEN <<str>>
    ELSE LET i == CHOOSE i \in 1..Len(str) :
                      str[i] = sep /\ \A j \in 1..(i - 1) : str[j] # sep
         IN <<SubSeq(str, 1, i - 1)>> \o split(SubSeq(str, i + 1, Len(str)), sep)

\* Array.prototype.join
RECURSIVE join(_, _)
join(parts, sep) ==
    IF parts = << >> THEN << >>
    ELSE IF Len(parts) = 1 THEN parts[1]
    ELSE parts[1] \o <<sep>> \o join(Tail(parts), sep)

\* Array.prototype.slice(start), start counted from 0
slice(parts, start) == SubSeq(parts, start + 1, Len(parts))

\* String.prototype.toUpperCase
UpperCase(ch) ==
    IF ch = "c" THEN "C" ELSE IF ch = "m" THEN "M" ELSE IF ch = "n" THEN "N"
    ELSE IF ch = "t" THEN "T" ELSE ch

toUpperCase(str) == [i \in 1..Len(str) |-> UpperCase(str[i])]

\* CDPClient.toWindowsPath(posixPath)
toWindowsPath(posixPath) ==
    IF startsWith(posixPath, <<"/", "m", "n", "t", "/">>)
    THEN LET parts == split(posixPath, "/")
             drive == toUpperCase(parts[3])
         IN drive \o <<":", "\\">> \o join(slice(parts, 3), "\\")
    ELSE posixPath

\* (args.files || []).map(f => CDPClient.toWindowsPath(f))
windowsFiles(files) == [i \in 1..Len(files) |-> toWindowsPath(files[i])]

\* The paths whose parts between slashes are empty, "mnt" or "c", and the lists of
\* files made of them.
Segments == {<< >>, <<"m", "n", "t">>, <<"c">>}

Paths == {join(parts, "/") : parts \in UNION {[1..n -> Segments] : n \in 1..MaxParts}}

FileLists == UNION {[1..n -> Paths] : n \in 0..MaxFiles}

----------------------------------------------------------------------------
\* CDPClient

\* targets.sort((a, b) => a.id.localeCompare(b.id)): the target t put in its place in
\* a sorted list, and the sort of a list.
RECURSIVE InsertById(_, _)
InsertById(sorted, t) ==
    IF sorted = << >> THEN <<t>>
    ELSE IF t.id < Head(sorted).id THEN <<t>> \o sorted
    ELSE <<Head(sorted)>> \o InsertById(Tail(sorted), t)

RECURSIVE SortById(_)
SortById(list) ==
    IF list = << >> THEN << >>
    ELSE InsertById(SortById(SubSeq(list, 1, Len(list) - 1)), list[Len(list)])

\* A target list handed on as the endpoint gave it.
getTargetsAsListed(list) == list

\* getTargets(): the parsed answer of /json/list, sorted by id.
getTargets(list) == SortById(list)

IsPage(t) == t.type = "page"

\* connectToTarget(targetId) with a number: the resolution of the index among the
\* page targets, or the out-of-range error.
resolveIndex(list, index) ==
    LET pageTargets == SelectSeq(getTargets(list), IsPage) IN
    IF index < 0 \/ index >= Len(pageTargets)
    THEN [index |-> index, error |-> "out of range", id |-> 0]
    ELSE [index |-> index, error |-> "", id |-> pageTargets[index + 1].id]

InitTargetVars ==
    /\ targets = {}
    /\ listed = << >>
    /\ resolutions = {}

maxQueueSize == 1000
maxNetworkRequests == 500

\* The page targets /json/list returns, sorted by id.
PageTargets == <<"A", "B">>

\* The fields of the session, as one record, and the assignment of a new record.
Session ==
    [ws |-> ws, targetId |-> targetId, socks |-> socks, messageId |-> messageId,
     pendingCommands |-> pendingCommands, timers |-> timers, sends |-> sends,
     eventQueue |-> eventQueue, networkRequests |-> networkRequests,
     domainsEnabled |-> domainsEnabled, eventListeners |-> eventListeners,
     docVersion |-> docVersion, rootNodeId |-> rootNodeId, refs |-> refs,
     waits |-> waits, conns |-> conns, uploads |-> uploads, results |-> results]

Becomes(st) ==
    /\ ws' = st.ws
    /\ targetId' = st.targetId
    /\ socks' = st.socks
    /\ messageId' = st.messageId
    /\ pendingCommands' = st.pendingCommands
    /\ timers' = st.timers
    /\ sends' = st.sends
    /\ eventQueue' = st.eventQueue
    /\ networkRequests' = st.networkRequests
    /\ domainsEnabled' = st.domainsEnabled
    /\ eventListeners' = st.eventListeners
    /\ docVersion' = st.docVersion
    /\ rootNodeId' = st.rootNodeId
    /\ refs' = st.refs
    /\ waits' = st.waits
    /\ conns' = st.conns
    /\ uploads' = st.uploads
    /\ results' = st.results

\* this.ws && this.ws.readyState === WebSocket.OPEN
IsOpen(st) == st.ws # 0 /\ st.socks[st.ws].state = "OPEN"

\* send(method, params). nodeId is params.nodeId (0 when the command has none); cont
\* names what awaits the returned promise; stale records whether nodeId came from a
\* node reference older than the current docVersion; text is params.promptText as
\* written ("absent": the message has no such key); tab is the tabId of the tool call
\* on whose behalf the command is sent ("": none).
send(st, method, nodeId, cont, stale) ==
    LET call == [id |-> 0, sock |-> 0, method |-> method, nodeId |-> nodeId,
                 cont |-> cont, stale |-> stale, outcome |-> "notconnected",
                 settles |-> 1, by |-> 0, text |-> "absent", tab |-> ""]
    IN IF ~IsOpen(st)
       THEN [st EXCEPT !.sends = Append(@, call)]
       ELSE LET id == st.messageId + 1 IN
            [st EXCEPT !.messageId = id,
                       !.pendingCommands = MapSet(@, id, Len(st.sends) + 1),
                       !.timers = @ \cup {id},
                       !.sends = Append(@, [call EXCEPT !.id = id, !.sock = st.ws,
                                                        !.outcome = "pending",
                                                        !.settles = 0])]

\* resolve / reject of the completers of send call k. `by` is the send call the
\* settling message answers (k itself for the timeout).
Settle(st, k, outcome, by) ==
    LET c == st.sends[k] IN
    [st EXCEPT !.sends[k] =
        [c EXCEPT !.settles = c.settles + 1,
                  !.outcome = IF c.settles = 0 THEN outcome ELSE c.outcome,
                  !.by = IF c.settles = 0 THEN by ELSE c.by]]

\* A CDP event: its method, the parent frame id (0: none) of Page.frameNavigated, the
\* request id and the HTTP method of a Network event; url is params.response.url of
\* Network.responseReceived ("absent": params has no response).
EventMessage(method, parentId, requestId, httpMethod) ==
    [id |-> 0, error |-> FALSE, val |-> 0, of |-> 0, method |-> method,
     parentId |-> parentId, requestId |-> requestId, httpMethod |-> httpMethod,
     type |-> "", name |-> "", frame |-> "", url |-> "u"]

\* An event with params.type (the resource type of a Network event, the dialog type of
\* Page.javascriptDialogOpening), params.name (Page.lifecycleEvent) and the frame
\* params.frameId names ("main": the top frame, "child": an iframe).
TypedEvent(method, requestId, type, name, frame) ==
    [EventMessage(method, 0, requestId, "") EXCEPT !.type = type, !.name = name,
                                                    !.frame = frame]

NoEvent == EventMessage("", 0, 0, "")

\* A wait call that arms no timer.
WaitWithoutTimer(op, method, filter, asked, timeoutMs) ==
    [op |-> op, method |-> method, filter |-> filter, asked |-> asked,
     timeoutMs |-> timeoutMs, state |-> "pending", timer |-> FALSE, with |-> NoEvent,
     inflight |-> 0, maxInflight |-> 0, idleTimer |-> FALSE,
     autoHandle |-> FALSE, promptText |-> "undefined", sent |-> 0, url |-> ""]

\* A wait call: op is the function called, method the event it listens for, filter
\* the value its filter compares (the lifecycle name of waitForLoad, the HTTP method of
\* waitForResponse, "" for none), asked the timeoutMs the caller gave and timeoutMs
\* the one handed to setTimeout; timer: the timeout timer is armed; with: the event
\* it resolved with. inflight, maxInflight and idleTimer belong to waitForNetworkIdle;
\* autoHandle, promptText (the caller's prompt text, "undefined" when not given), sent
\* (the send call of Page.handleJavaScriptDialog, 0: none) to waitForDialog; url (the
\* url option, "" when not given) to waitForResponse.
Wait(op, method, filter, asked, timeoutMs) ==
    [op |-> op, method |-> method, filter |-> filter, asked |-> asked,
     timeoutMs |-> timeoutMs, state |-> "pending", timer |-> TRUE, with |-> NoEvent,
     inflight |-> 0, maxInflight |-> 0, idleTimer |-> FALSE,
     autoHandle |-> FALSE, promptText |-> "undefined", sent |-> 0, url |-> ""]

\* on(method, callback) for the callback(s) of wait w.
on(st, method, w) ==
    [st EXCEPT !.eventListeners = @ \cup {[method |-> method, w |-> w]}]

\* The unsubscribe functions of wait w.
off(st, w) ==
    [st EXCEPT !.eventListeners = {l \in @ : l.w # w}]

\* A waitForEvent that first looks for the event in the event queue and resolves with
\* a queued one.
waitForEventReplays(st, op, method, filter, asked, timeoutMs) ==
    LET st1 == [st EXCEPT !.waits = Append(@, Wait(op, method, filter, asked, timeoutMs))]
        w == Len(st1.waits)
    IN IF \E i \in 1..Len(st.eventQueue) : st.eventQueue[i].method = method
       THEN [st1 EXCEPT !.waits[w].state = "resolved", !.waits[w].timer = FALSE,
                        !.waits[w].with = TypedEvent(method, 0, "", "", "")]
       ELSE on(st1, method, w)

\* waitForEvent(method, {timeoutMs, filter}) as called by `op`: the listener and the
\* timer. The new wait is the last of st.waits.
waitForEvent(st, op, method, filter, asked, timeoutMs) ==
    LET st1 == [st EXCEPT !.waits = Append(@, Wait(op, method, filter, asked, timeoutMs))]
    IN on(st1, method, Len(st1.waits))

\* waitForFileChooser after `await this.setInterceptFileChooserDialog(true)` (send
\* call k) has settled: waitForEvent if it resolved, else the call fails.
fileChooserEnabled(st, k) ==
    LET w == CHOOSE w \in 1..Len(st.waits) :
                 st.waits[w].op = "waitForFileChooser" /\ st.waits[w].sent = k
    IN IF st.sends[k].outcome = "result"
       THEN on([st EXCEPT !.waits[w].state = "pending", !.waits[w].timer = TRUE],
               "Page.fileChooserOpened", w)
       ELSE [st EXCEPT !.waits[w].state = "failed"]

\* The sequence q without the elements at the indices in `drop`.
RECURSIVE Without(_, _)
Without(q, drop) ==
    IF q = << >> THEN << >>
    ELSE LET rest == Without(SubSeq(q, 1, Len(q) - 1), drop) IN
         IF Len(q) \in drop THEN rest ELSE Append(rest, q[Len(q)])

\* A send on behalf of the tool call that named tab.
sendFor(st, tab, method, cont) ==
    LET st1 == send(st, method, 0, cont, FALSE)
    IN [st1 EXCEPT !.sends[Len(st1.sends)].tab = tab]

\* What follows `await this.ensureConnected(args.tabId)` in handleCookiesGet:
\* this.cdp.getCookies().
getCookies(st, tab) == sendFor(st, tab, "Network.getCookies", "none")

\* What follows the connection in navigate(url), called by handleNavigate for the
\* tool call that named tab: this.send('Page.navigate', { url }).
navigated(st, tab) == sendFor(st, tab, "Page.navigate", "none")

\* connectToTarget call c returns its target: the call is over, and the function
\* that awaited it goes on: handleNavigate with navigate(url) (cmd "navigate"),
\* navigate with its send, handleCookiesGet with getCookies.
RECURSIVE navigate(_, _)
Returned(st, c) ==
    LET call == st.conns[c]
        st1 == [st EXCEPT !.conns = Without(@, {c})]
    IN IF ~call.tool THEN st1
       ELSE IF call.cmd = "navigate" THEN navigate(st1, call.tab)
       ELSE IF call.cmd = "Page.navigate" THEN navigated(st1, call.tab)
       ELSE getCookies(st1, call.ref)

\* enableDomains() of connectToTarget call c from step i on: steps 1 to 4 enable the
\* domains not enabled yet, step 5 the lifecycle events if Page is enabled. A send
\* that throws is caught and the loop goes on; else the call awaits the answer.
Domains == <<"Page", "Runtime", "Network", "DOM">>

EnableMethods == <<"Page.enable", "Runtime.enable", "Network.enable", "DOM.enable",
                   "Page.setLifecycleEventsEnabled">>

RECURSIVE enableDomains(_, _, _)
enableDomains(st, c, i) ==
    IF i > Len(EnableMethods) THEN Returned(st, c)
    ELSE IF \/ i <= Len(Domains) /\ Domains[i] \in st.domainsEnabled
            \/ i > Len(Domains) /\ "Page" \notin st.domainsEnabled
    THEN enableDomains(st, c, i + 1)
    ELSE LET st1 == sendFor(st, st.conns[c].ref, EnableMethods[i], "enable")
             k == Len(st1.sends)
         IN IF st1.sends[k].settles = 1 THEN enableDomains(st1, c, i + 1)
            ELSE [st1 EXCEPT !.conns[c].pc = "enabling", !.conns[c].step = i,
                             !.conns[c].await = k]

\* enableDomains after the answer to (or the timeout of) send call k: the domain is
\* recorded as enabled if the command succeeded, and the loop goes on.
domainAnswered(st, k) ==
    LET c == CHOOSE c \in 1..Len(st.conns) :
                 st.conns[c].pc = "enabling" /\ st.conns[c].await = k
        i == st.conns[c].step
        st1 == IF st.sends[k].outcome = "result" /\ i <= Len(Domains)
               THEN [st EXCEPT !.domainsEnabled = @ \cup {Domains[i]}] ELSE st
    IN enableDomains(st1, c, i + 1)

\* setFileInputFiles(files, nodeId) as handleFileUpload calls it with args.files.
setFileInputFiles(st, files, nodeId) ==
    LET st1 == send(st, "DOM.setFileInputFiles", nodeId, "upload", FALSE)
    IN [st1 EXCEPT !.uploads = Append(@, [args |-> files, files |-> windowsFiles(files),
                                          sent |-> Len(st1.sends)])]

\* handleFileUpload after setFileInputFiles returned: its result.
fileUploaded(st, k) ==
    LET u == CHOOSE u \in 1..Len(st.uploads) : st.uploads[u].sent = k
    IN [st EXCEPT !.results = Append(@, [tool |-> "file_upload", success |-> TRUE,
                                         files |-> st.uploads[u].files])]

\* A value of the program that is a base64 string (data: the bytes it encodes).
Base64String(data) == [kind |-> "string", data |-> data, format |-> ""]

\* takeScreenshot() after Page.captureScreenshot answered with result: the object it
\* returns, { data: result.data, format, width, height, scale }.
takeScreenshot(result) == [kind |-> "object", data |-> result.data, format |-> "jpeg"]

\* handleComputer, action screenshot, after takeScreenshot returned: its result.
screenshotTaken(st, val) ==
    LET screenshot == takeScreenshot([data |-> Base64String(val)])
    IN [st EXCEPT !.results = Append(@, [tool |-> "computer", type |-> "image",
                                         data |-> screenshot,
                                         mediaType |-> "image/png"])]

\* What runs when the promise of send call k has settled: the rest of getDocument,
\* querySelector, waitForFileChooser, enableDomains, handleFileUpload and
\* takeScreenshot. A rejected promise ends the awaiting function unless it catches.
Resume(st, k, val) ==
    LET c == st.sends[k] IN
    IF c.settles # 1 THEN st
    ELSE IF c.cont = "fileChooser" THEN fileChooserEnabled(st, k)
    ELSE IF c.cont = "enable" THEN domainAnswered(st, k)
    ELSE IF c.outcome # "result" THEN st
    ELSE IF c.cont = "getDocument"
         THEN send([st EXCEPT !.rootNodeId = val], "DOM.querySelector", val, "query", FALSE)
    ELSE IF c.cont = "query" /\ val # 0
         THEN [st EXCEPT !.refs = @ \cup {[nodeId |-> val, docVersion |-> st.docVersion]}]
    ELSE IF c.cont = "upload" THEN fileUploaded(st, k)
    ELSE IF c.cont = "layout"
         THEN send(st, "Page.captureScreenshot", 0, "screenshot", FALSE)
    ELSE IF c.cont = "screenshot" THEN screenshotTaken(st, val)
    ELSE st

\* A filter of waitForResponse that compares the method with params.type.
PassesByType(st, W, msg) ==
    IF W.op = "waitForLoad" THEN msg.name = W.filter
    ELSE IF W.op = "waitForResponse" /\ W.filter # ""
    THEN msg.type = W.filter
    ELSE TRUE

\* The filters of waitForLoad (params.name) and waitForResponse (the method recorded
\* in the registry under params.requestId); waitForEvent as called by waitForDialog
\* and waitForFileChooser has none.
Passes(st, W, msg) ==
    IF W.op = "waitForLoad" THEN msg.name = W.filter
    ELSE IF W.op = "waitForResponse" /\ W.url # "" /\ msg.url # W.url THEN FALSE
    ELSE IF W.op = "waitForResponse" /\ W.filter # ""
    THEN \E i \in 1..Len(st.networkRequests) :
            /\ st.networkRequests[i].requestId = msg.requestId
            /\ st.networkRequests[i].method = W.filter
    ELSE TRUE

\* checkIdle of waitForNetworkIdle call w
checkIdle(st, w) ==
    IF st.waits[w].inflight <= st.waits[w].maxInflight
    THEN [st EXCEPT !.waits[w].idleTimer = TRUE] ELSE st

\* Listeners of waitForNetworkIdle that count a request of any type.
ListenerCountsAll(st, w, msg) ==
    LET W == st.waits[w] IN
    IF W.op = "waitForNetworkIdle"
    THEN IF msg.method = "Network.requestWillBeSent"
         THEN [st EXCEPT !.waits[w].inflight = @ + 1, !.waits[w].idleTimer = FALSE]
         ELSE checkIdle([st EXCEPT !.waits[w].inflight = IF @ > 0 THEN @ - 1 ELSE 0], w)
    ELSE IF ~Passes(st, W, msg) THEN st
    ELSE [off(st, w) EXCEPT !.waits[w].timer = FALSE,
                            !.waits[w].state = "resolved",
                            !.waits[w].with = msg]

\* The callback wait w registered for msg.method.
Listener(st, w, msg) ==
    LET W == st.waits[w] IN
    IF W.op = "waitForNetworkIdle"
    THEN IF msg.method = "Network.requestWillBeSent"
         THEN IF msg.type # "WebSocket"
              THEN [st EXCEPT !.waits[w].inflight = @ + 1, !.waits[w].idleTimer = FALSE]
              ELSE st
         ELSE checkIdle([st EXCEPT !.waits[w].inflight = IF @ > 0 THEN @ - 1 ELSE 0], w)
    ELSE IF ~Passes(st, W, msg) THEN st
    ELSE [off(st, w) EXCEPT !.waits[w].timer = FALSE,
                            !.waits[w].state = "resolved",
                            !.waits[w].with = msg]

\* The callback of wait W throws on msg: the filter of waitForResponse reads
\* response.url when the url option is given, and params has no response.
Throws(W, msg) == W.op = "waitForResponse" /\ W.url # "" /\ msg.url = "absent"

\* emitEvent, the calls of the listeners of msg.method, from wait w on in the order
\* of registration, each in its try block: a callback that throws has done nothing,
\* and the loop goes on.
RECURSIVE Notify(_, _, _)
Notify(st, msg, w) ==
    IF w > Len(st.waits) THEN st
    ELSE Notify(IF /\ [method |-> msg.method, w |-> w] \in st.eventListeners
                   /\ ~Throws(st.waits[w], msg)
                THEN Listener(st, w, msg) ELSE st, msg, w + 1)

\* An emitEvent without the try blocks: the first callback that throws ends it, the
\* callbacks after it are not called and the event is not queued.
emitEventUncaught(st, msg) ==
    LET T == {w \in 1..Len(st.waits) :
                 /\ [method |-> msg.method, w |-> w] \in st.eventListeners
                 /\ Throws(st.waits[w], msg)}
        t == IF T = {} THEN Len(st.waits) + 1
             ELSE CHOOSE w \in T : \A v \in T : w <= v
        st1 == Notify([st EXCEPT !.eventListeners = {l \in @ : l.w < t}], msg, 1)
        st2 == [st1 EXCEPT !.eventListeners = @ \cup {l \in st.eventListeners : l.w >= t}]
        q == IF Len(st2.eventQueue) >= maxQueueSize THEN Tail(st2.eventQueue)
             ELSE st2.eventQueue
    IN IF T # {} THEN st2
       ELSE [st2 EXCEPT !.eventQueue = Append(q, [method |-> msg.method,
                                                  parentId |-> msg.parentId,
                                                  requestId |-> msg.requestId,
                                                  type |-> msg.type,
                                                  url |-> msg.url])]

\* A bounded push that drops the oldest event only once the queue is over its limit.
emitEventOverLimit(st, msg) ==
    LET st1 == Notify(st, msg, 1)
        q == IF Len(st1.eventQueue) > maxQueueSize THEN Tail(st1.eventQueue)
             ELSE st1.eventQueue
    IN [st1 EXCEPT !.eventQueue = Append(q, [method |-> msg.method,
                                              parentId |-> msg.parentId,
                                              requestId |-> msg.requestId,
                                              type |-> msg.type,
                                              url |-> msg.url])]

\* emitEvent(method, params): the listeners, then the bounded push on the event queue.
emitEvent(st, msg) ==
    LET st1 == Notify(st, msg, 1)
        q == IF Len(st1.eventQueue) >= maxQueueSize THEN Tail(st1.eventQueue)
             ELSE st1.eventQueue
    IN [st1 EXCEPT !.eventQueue = Append(q, [method |-> msg.method,
                                              parentId |-> msg.parentId,
                                              requestId |-> msg.requestId,
                                              type |-> msg.type,
                                              url |-> msg.url])]

\* The index of requestId in the registry, 0 when it is absent.
IndexOf(reg, requestId) ==
    IF \E i \in 1..Len(reg) : reg[i].requestId = requestId
    THEN CHOOSE i \in 1..Len(reg) : reg[i].requestId = requestId
    ELSE 0

\* Map.set keeps the position of a key that is already present.
RegistrySet(reg, entry) ==
    IF IndexOf(reg, entry.requestId) # 0
    THEN [reg EXCEPT ![IndexOf(reg, entry.requestId)] = entry]
    ELSE Append(reg, entry)

\* handleMessage, Network.requestWillBeSent
trackRequest(st, msg) ==
    LET reg == IF Len(st.networkRequests) >= maxNetworkRequests
               THEN Tail(st.networkRequests) ELSE st.networkRequests
    IN [st EXCEPT !.networkRequests =
           RegistrySet(reg, [requestId |-> msg.requestId, method |-> msg.httpMethod,
                             finished |-> FALSE])]

\* handleMessage, Network.loadingFinished / Network.loadingFailed
trackFinished(st, msg) ==
    LET i == IndexOf(st.networkRequests, msg.requestId) IN
    IF i = 0 THEN st ELSE [st EXCEPT !.networkRequests[i].finished = TRUE]

\* handleMessage, the docVersion rules
trackDocument(st, msg) ==
    LET st1 == IF msg.method = "DOM.documentUpdated"
               THEN [st EXCEPT !.docVersion = @ + 1, !.rootNodeId = 0] ELSE st
    IN IF msg.method = "Page.frameNavigated" /\ msg.parentId = 0
       THEN [st1 EXCEPT !.docVersion = @ + 1, !.rootNodeId = 0] ELSE st1

\* JSON.stringify leaves out a key whose value is undefined.
Stringify(value) == IF value = "undefined" THEN "absent" ELSE value

\* handleJavaScriptDialog(accept, promptText): params.promptText is set unless
\* promptText is null.
handleJavaScriptDialog(st, promptText) ==
    LET st1 == send(st, "Page.handleJavaScriptDialog", 0, "none", FALSE)
        written == IF promptText # "null" THEN Stringify(promptText) ELSE "absent"
    IN [st1 EXCEPT !.sends[Len(st1.sends)].text = written]

\* What runs once the event handler has returned: the rest of waitForDialog for every
\* call whose waitForEvent has just resolved, from wait w on.
RECURSIVE Continue(_, _)
Continue(st, w) ==
    IF w > Len(st.waits) THEN st
    ELSE LET W == st.waits[w] IN
         IF W.op = "waitForDialog" /\ W.state = "resolved" /\ W.autoHandle /\ W.sent = 0
         THEN LET st1 == handleJavaScriptDialog(st, W.promptText)
              IN Continue([st1 EXCEPT !.waits[w].sent = Len(st1.sends)], w + 1)
         ELSE Continue(st, w + 1)

\* A message handler that settles the command but keeps its entry in pendingCommands.
handleMessageKeepsPending(st, msg) ==
    IF msg.id # 0 /\ MapHas(st.pendingCommands, msg.id)
    THEN LET k == st.pendingCommands[msg.id]
             st2 == Settle(st, k, IF msg.error THEN "error" ELSE "result", msg.of)
         IN Resume(st2, k, msg.val)
    ELSE IF msg.method # ""
    THEN LET st1 == trackDocument(emitEvent(st, msg), msg)
             st2 == IF msg.method = "Network.requestWillBeSent"
                    THEN trackRequest(st1, msg) ELSE st1
         IN Continue(IF msg.method \in {"Network.loadingFinished", "Network.loadingFailed"}
                     THEN trackFinished(st2, msg) ELSE st2, 1)
    ELSE st

\* handleMessage(message). A message is a response (id # 0: error or result val, of:
\* the send call it answers) or an event (id = 0, method).
handleMessage(st, msg) ==
    IF msg.id # 0 /\ MapHas(st.pendingCommands, msg.id)
    THEN LET k == st.pendingCommands[msg.id]
             st1 == [st EXCEPT !.pendingCommands = MapDelete(@, msg.id)]
             st2 == Settle(st1, k, IF msg.error THEN "error" ELSE "result", msg.of)
         IN Resume(st2, k, msg.val)
    ELSE IF msg.method # ""
    THEN LET st1 == trackDocument(emitEvent(st, msg), msg)
             st2 == IF msg.method = "Network.requestWillBeSent"
                    THEN trackRequest(st1, msg) ELSE st1
         IN Continue(IF msg.method \in {"Network.loadingFinished", "Network.loadingFailed"}
                     THEN trackFinished(st2, msg) ELSE st2, 1)
    ELSE st

\* A timer callback that rejects the command but keeps its entry in pendingCommands.
onTimeoutKeepsPending(st, id) ==
    LET st1 == [st EXCEPT !.timers = @ \ {id}] IN
    IF MapHas(st1.pendingCommands, id)
    THEN LET k == st1.pendingCommands[id] IN
         Resume(Settle(st1, k, "timeout", k), k, 0)
    ELSE st1

\* The callback of send's setTimeout for command id.
onTimeout(st, id) ==
    LET st1 == [st EXCEPT !.timers = @ \ {id}] IN
    IF MapHas(st1.pendingCommands, id)
    THEN LET k == st1.pendingCommands[id] IN
         Resume(Settle([st1 EXCEPT !.pendingCommands = MapDelete(@, id)], k, "timeout", k),
                k, 0)
    ELSE st1

\* ws.close(): an open or connecting socket starts closing.
CloseSocket(sk, s) ==
    IF sk[s].state \in {"CONNECTING", "OPEN"} THEN [sk EXCEPT ![s].state = "CLOSING"]
    ELSE sk

\* A disconnect that closes the socket and clears nothing.
disconnectKeepsState(st) ==
    IF st.ws # 0
    THEN [st EXCEPT !.socks = CloseSocket(@, st.ws), !.ws = 0] ELSE st

\* disconnect()
disconnect(st) ==
    LET st1 == IF st.ws # 0
               THEN [st EXCEPT !.socks = CloseSocket(@, st.ws), !.ws = 0] ELSE st
    IN [st1 EXCEPT !.eventListeners = {}, !.eventQueue = << >>,
                   !.networkRequests = << >>, !.domainsEnabled = {}]

\* A close callback that also starts the command ids again.
onSocketCloseResetsIds(st, s) ==
    LET st1 == [st EXCEPT !.socks[s].state = "CLOSED"] IN
    IF st.ws = s
    THEN [st1 EXCEPT !.ws = 0, !.targetId = "null", !.domainsEnabled = {},
                     !.docVersion = 0, !.rootNodeId = 0, !.eventListeners = {},
                     !.eventQueue = << >>, !.networkRequests = << >>, !.messageId = 0]
    ELSE st1

\* A close callback without the test that the socket is still the bound one.
onSocketCloseUnguarded(st, s) ==
    LET st1 == [st EXCEPT !.socks[s].state = "CLOSED"] IN
    [st1 EXCEPT !.ws = 0, !.targetId = "null", !.domainsEnabled = {},
                !.docVersion = 0, !.rootNodeId = 0, !.eventListeners = {},
                !.eventQueue = << >>, !.networkRequests = << >>]

\* newWs.on('close') of socket s
onSocketClose(st, s) ==
    LET st1 == [st EXCEPT !.socks[s].state = "CLOSED"] IN
    IF st.ws = s
    THEN [st1 EXCEPT !.ws = 0, !.targetId = "null", !.domainsEnabled = {},
                     !.docVersion = 0, !.rootNodeId = 0, !.eventListeners = {},
                     !.eventQueue = << >>, !.networkRequests = << >>]
    ELSE st1

\* The references that stand for the numbers 0 and 1.
IndexRefs == <<"#0", "#1">>

IsIndex(ref) == \E i \in 1..Len(IndexRefs) : IndexRefs[i] = ref

\* connectToTarget, the target a reference resolves to ("null" when there is none).
ResolveTarget(ref) ==
    IF ref = "none" THEN PageTargets[1]
    ELSE IF IsIndex(ref)
    THEN PageTargets[CHOOSE i \in 1..Len(IndexRefs) : IndexRefs[i] = ref]
    ELSE IF \E i \in 1..Len(PageTargets) : PageTargets[i] = ref THEN ref
    ELSE "null"

InitCDPVars ==
    /\ ws = 0
    /\ targetId = "null"
    /\ socks = << >>
    /\ messageId = 0
    /\ pendingCommands = EmptyMap
    /\ timers = {}
    /\ sends = << >>
    /\ answered = {}
    /\ eventQueue = << >>
    /\ networkRequests = << >>
    /\ domainsEnabled = {}
    /\ eventListeners = {}
    /\ docVersion = 0
    /\ rootNodeId = 0
    /\ conns = << >>
    /\ waits = << >>
    /\ uploads = << >>
    /\ results = << >>
    /\ refs = {}
    /\ nEvents = 0

\* connectToTarget(ref, options) up to its first await: the cached return, or the
\* request for the target list. enable: options.skipDomainEnable is not set; tool: the
\* call is the one a tool handler awaits; cmd: the command that handler sends next;
\* tab: the tabId of the tool call. A reference is "none", the id of a target, or one
\* of IndexRefs for a number.
connectToTargetFor(st, ref, enable, tool, cmd, tab) ==
    LET call == [ref |-> ref, sock |-> 0, pc |-> "getTargets", enable |-> enable,
                 tool |-> tool, step |-> 0, await |-> 0, cmd |-> cmd, tab |-> tab]
        st1 == [st EXCEPT !.conns = Append(@, call)]
    IN IF IsOpen(st) /\ (ref = "none" \/ (~IsIndex(ref) /\ ref = st.targetId))
       THEN Returned(st1, Len(st1.conns))
       ELSE st1

\* connectToTarget as ensureConnected calls it for handleCookiesGet, and as called
\* on its own (tool = FALSE).
connectToTarget(st, ref, enable, tool) ==
    connectToTargetFor(st, ref, enable, tool, "Network.getCookies", ref)

\* JavaScript's truthiness of args.tabId: undefined ("none") and the number 0 are falsy.
Truthy(tab) == tab # "none" /\ tab # IndexRefs[1]

\* navigate(url): connectToTarget() if no socket is bound, then Page.navigate.
navigate(st, tab) ==
    IF st.ws = 0 THEN connectToTargetFor(st, "none", TRUE, TRUE, "Page.navigate", tab)
    ELSE navigated(st, tab)

\* targetsResolved without the return for a target that is bound and open.
targetsResolvedNoRecheck(st, c, ok) ==
    LET target == ResolveTarget(st.conns[c].ref) IN
    IF ~ok \/ target = "null"
    THEN [st EXCEPT !.conns = Without(@, {c})]
    ELSE LET st1 == IF st.ws # 0 /\ st.targetId # target THEN disconnect(st) ELSE st
             s == Len(st.socks) + 1
         IN [st1 EXCEPT !.targetId = target,
                        !.socks = Append(@, [state |-> "CONNECTING",
                                             target |-> target,
                                             opened |-> FALSE]),
                        !.ws = s,
                        !.conns[c].pc = "opening",
                        !.conns[c].sock = s]

\* connectToTarget call c after getTargets settled (ok: it resolved): resolve the
\* target, return it if it is bound and open, else disconnect from another target,
\* create the socket and bind it.
targetsResolved(st, c, ok) ==
    LET target == ResolveTarget(st.conns[c].ref) IN
    IF ~ok \/ target = "null"
    THEN [st EXCEPT !.conns = Without(@, {c})]
    ELSE IF IsOpen(st) /\ st.targetId = target
    THEN Returned(st, c)
    ELSE LET st1 == IF st.ws # 0 /\ st.targetId # target THEN disconnect(st) ELSE st
             s == Len(st.socks) + 1
         IN [st1 EXCEPT !.targetId = target,
                        !.socks = Append(@, [state |-> "CONNECTING",
                                             target |-> target,
                                             opened |-> FALSE]),
                        !.ws = s,
                        !.conns[c].pc = "opening",
                        !.conns[c].sock = s]

\* The connectToTarget call that waits for socket s to open (0: none).
Opening(st, s) ==
    IF \E c \in 1..Len(st.conns) : st.conns[c].pc = "opening" /\ st.conns[c].sock = s
    THEN CHOOSE c \in 1..Len(st.conns) :
             st.conns[c].pc = "opening" /\ st.conns[c].sock = s
    ELSE 0

ConnectToTarget(ref) ==
    /\ Becomes(connectToTarget(Session, ref, FALSE, FALSE))
    /\ UNCHANGED <<answered, nEvents>>
    /\ UNCHANGED <<hostVars, targetVars, proxyVars>>

TargetsResolved(c, ok) ==
    /\ c \in 1..Len(conns)
    /\ conns[c].pc = "getTargets"
    /\ Becomes(targetsResolved(Session, c, ok))
    /\ UNCHANGED <<answered, nEvents>>
    /\ UNCHANGED <<hostVars, targetVars, proxyVars>>

\* newWs.on('open'): the connectToTarget call that created the socket goes on to
\* enableDomains, or returns.
SocketOpen(s) ==
    /\ s \in 1..Len(socks)
    /\ socks[s].state = "CONNECTING"
    /\ LET st1 == [Session EXCEPT !.socks[s].state = "OPEN", !.socks[s].opened = TRUE]
           c == Opening(st1, s)
       IN Becomes(IF c = 0 THEN st1
                  ELSE IF st1.conns[c].enable THEN enableDomains(st1, c, 1)
                  ELSE Returned(st1, c))
    /\ UNCHANGED <<answered, nEvents>>
    /\ UNCHANGED <<hostVars, targetVars, proxyVars>>

\* newWs.on('close') (after newWs.on('error') when the socket never opened, which
\* rejects the connectToTarget call that created it).
SocketClosed(s) ==
    /\ s \in 1..Len(socks)
    /\ socks[s].state # "CLOSED"
    /\ LET st1 == onSocketClose(Session, s)
       IN Becomes([st1 EXCEPT !.conns = Without(@, {Opening(st1, s)})])
    /\ UNCHANGED <<answered, nEvents>>
    /\ UNCHANGED <<hostVars, targetVars, proxyVars>>

\* A tool handler with args.tabId = tab ("none": not given) up to its first await:
\* ensureConnected(tab), and what follows it when that returns at once.
handleCookiesGet(tab) ==
    /\ Becomes(IF tab # "none" THEN connectToTarget(Session, tab, TRUE, TRUE)
               ELSE IF ws = 0 THEN connectToTarget(Session, "none", TRUE, TRUE)
               ELSE getCookies(Session, "none"))
    /\ UNCHANGED <<answered, nEvents>>
    /\ UNCHANGED <<hostVars, targetVars, proxyVars>>

\* handleNavigate(args) with args.tabId = tab up to its first await that waits:
\* `if (args.tabId) await this.cdp.connectToTarget(args.tabId)`, then navigate.
handleNavigate(tab) ==
    /\ Becomes(IF Truthy(tab)
               THEN connectToTargetFor(Session, tab, TRUE, TRUE, "navigate", tab)
               ELSE navigate(Session, tab))
    /\ UNCHANGED <<answered, nEvents>>
    /\ UNCHANGED <<hostVars, targetVars, proxyVars>>

\* A command with no node id and nothing awaiting it but its caller (getCookies, ...).
Command(method) ==
    /\ Becomes(send(Session, method, 0, "none", FALSE))
    /\ UNCHANGED <<answered, nEvents>>
    /\ UNCHANGED <<hostVars, targetVars, proxyVars>>

\* querySelector(selector) up to its first await.
querySelector ==
    /\ Becomes(IF rootNodeId = 0
               THEN send(Session, "DOM.getDocument", 0, "getDocument", FALSE)
               ELSE send(Session, "DOM.querySelector", rootNodeId, "query", FALSE))
    /\ UNCHANGED <<answered, nEvents>>
    /\ UNCHANGED <<hostVars, targetVars, proxyVars>>

\* querySelector(selector, nodeId) with the node of a reference as scope.
querySelectorScoped(ref) ==
    /\ ref \in refs
    /\ Becomes(send(Session, "DOM.querySelector", ref.nodeId, "query",
                    ref.docVersion < docVersion))
    /\ UNCHANGED <<answered, nEvents>>
    /\ UNCHANGED <<hostVars, targetVars, proxyVars>>

\* getBoxModel / scrollIntoViewIfNeeded / focusElement / getOuterHTML (nodeId), as
\* called by handleElementBoxModel, ... with the node of a reference.
NodeCommands == {"DOM.getBoxModel", "DOM.scrollIntoViewIfNeeded", "DOM.focus",
                 "DOM.getOuterHTML"}

NodeCommand(method, ref) ==
    /\ ref \in refs
    /\ Becomes(send(Session, method, ref.nodeId, "none", ref.docVersion < docVersion))
    /\ UNCHANGED <<answered, nEvents>>
    /\ UNCHANGED <<hostVars, targetVars, proxyVars>>

\* Socket s can emit 'message': it was opened and has not emitted 'close' (a socket
\* closed by this side keeps delivering what the browser sent until then).
Delivers(s) == socks[s].opened /\ socks[s].state \in {"OPEN", "CLOSING"}

\* The values a result can carry: the root node of DOM.getDocument, the node (0: no
\* match) of DOM.querySelector.
\* The images a screenshot can show.
Images == {7, 8}

ResultValues(method) ==
    IF method = "DOM.getDocument" THEN {1}
    ELSE IF method = "DOM.querySelector" THEN {0, 2}
    ELSE IF method = "Page.captureScreenshot" THEN Images
    ELSE {0}

\* newWs.on('message') with the browser's answer to send call k. The browser answers
\* a command once, on the socket it was written to.
Response(k, error, val) ==
    /\ k \in 1..Len(sends)
    /\ sends[k].id # 0
    /\ k \notin answered
    /\ Delivers(sends[k].sock)
    /\ val \in ResultValues(sends[k].method)
    /\ answered' = answered \cup {k}
    /\ Becomes(handleMessage(Session, [id |-> sends[k].id, error |-> error, val |-> val,
                                       of |-> k, method |-> "", parentId |-> 0,
                                       requestId |-> 0, httpMethod |-> "",
                                       type |-> "", name |-> "", frame |-> "",
                                       url |-> ""]))
    /\ UNCHANGED nEvents
    /\ UNCHANGED <<hostVars, targetVars, proxyVars>>

\* newWs.on('message') of socket s with an event.
Event(s, msg) ==
    /\ s \in 1..Len(socks)
    /\ Delivers(s)
    /\ nEvents' = nEvents + 1
    /\ Becomes(handleMessage(Session, msg))
    /\ UNCHANGED answered
    /\ UNCHANGED <<hostVars, targetVars, proxyVars>>

\* The 30 s timer of command id fires.
TimerFires(id) ==
    /\ id \in timers
    /\ Becomes(onTimeout(Session, id))
    /\ UNCHANGED <<answered, nEvents>>
    /\ UNCHANGED <<hostVars, targetVars, proxyVars>>

\* waitForLoad({waitUntil, timeoutMs})
waitForLoad(st, waitUntil, asked, timeoutMs) ==
    waitForEvent(st, "waitForLoad", "Page.lifecycleEvent",
                 IF waitUntil = "domcontentloaded" THEN "DOMContentLoaded" ELSE "load",
                 asked, timeoutMs)

\* waitForResponse({method, timeoutMs}); method "" when the caller gives none.
waitForResponse(st, method, asked, timeoutMs) ==
    waitForEvent(st, "waitForResponse", "Network.responseReceived", method, asked,
                 timeoutMs)

\* waitForResponse({url, timeoutMs})
waitForResponseUrl(st, url, asked, timeoutMs) ==
    LET st1 == waitForResponse(st, "", asked, timeoutMs)
    IN [st1 EXCEPT !.waits[Len(st1.waits)].url = url]

\* waitForDialog({timeoutMs, autoHandle, promptText}) up to its await.
waitForDialog(st, asked, timeoutMs, autoHandle, promptText) ==
    LET st1 == waitForEvent(st, "waitForDialog", "Page.javascriptDialogOpening", "",
                            asked, timeoutMs)
    IN [st1 EXCEPT !.waits[Len(st1.waits)].autoHandle = autoHandle,
                   !.waits[Len(st1.waits)].promptText = promptText]

\* waitForFileChooser({timeoutMs}) up to its first await: the command that enables
\* the interception is sent; a send that throws ends the call.
waitForFileChooser(st, asked, timeoutMs) ==
    LET st1 == send(st, "Page.setInterceptFileChooserDialog", 0, "fileChooser", FALSE)
        k == Len(st1.sends)
        W == [Wait("waitForFileChooser", "Page.fileChooserOpened", "", asked, timeoutMs)
                 EXCEPT !.timer = FALSE, !.sent = k,
                        !.state = IF st1.sends[k].settles = 1 THEN "failed"
                                  ELSE "starting"]
    IN [st1 EXCEPT !.waits = Append(@, W)]

\* waitForNetworkIdle({timeoutMs, maxInflight}): the overall timer, the three
\* listeners and the first checkIdle.
waitForNetworkIdle(st, asked, timeoutMs, maxInflight) ==
    LET W == [Wait("waitForNetworkIdle", "", "", asked, timeoutMs)
                 EXCEPT !.maxInflight = maxInflight]
        st1 == [st EXCEPT !.waits = Append(@, W)]
        w == Len(st1.waits)
    IN checkIdle(on(on(on(st1, "Network.requestWillBeSent", w),
                       "Network.loadingFinished", w), "Network.loadingFailed", w), w)

\* JavaScript's `value || fallback` for a number: 0 is falsy.
OrElse(value, fallback) == IF value = 0 THEN fallback ELSE value

\* A call of one of the wait functions of CDPClient.
WaitForLoad(waitUntil, timeoutMs) ==
    /\ Becomes(waitForLoad(Session, waitUntil, timeoutMs, timeoutMs))
    /\ UNCHANGED <<answered, nEvents>>
    /\ UNCHANGED <<hostVars, targetVars, proxyVars>>

WaitForResponse(method, timeoutMs) ==
    /\ Becomes(waitForResponse(Session, method, timeoutMs, timeoutMs))
    /\ UNCHANGED <<answered, nEvents>>
    /\ UNCHANGED <<hostVars, targetVars, proxyVars>>

WaitForResponseUrl(url, timeoutMs) ==
    /\ Becomes(waitForResponseUrl(Session, url, timeoutMs, timeoutMs))
    /\ UNCHANGED <<answered, nEvents>>
    /\ UNCHANGED <<hostVars, targetVars, proxyVars>>

WaitForDialog(timeoutMs, autoHandle, promptText) ==
    /\ Becomes(waitForDialog(Session, timeoutMs, timeoutMs, autoHandle, promptText))
    /\ UNCHANGED <<answered, nEvents>>
    /\ UNCHANGED <<hostVars, targetVars, proxyVars>>

WaitForFileChooser(timeoutMs) ==
    /\ Becomes(waitForFileChooser(Session, timeoutMs, timeoutMs))
    /\ UNCHANGED <<answered, nEvents>>
    /\ UNCHANGED <<hostVars, targetVars, proxyVars>>

WaitForNetworkIdle(timeoutMs, maxInflight) ==
    /\ Becomes(waitForNetworkIdle(Session, timeoutMs, timeoutMs, maxInflight))
    /\ UNCHANGED <<answered, nEvents>>
    /\ UNCHANGED <<hostVars, targetVars, proxyVars>>

\* The wait tools of CDPHost, called with no tabId while a socket is bound
\* (ensureConnected then connects nothing): each hands `args.timeoutMs || 30000` on.
handlePageWaitForLoad(waitUntil, timeoutMs) ==
    /\ ws # 0
    /\ Becomes(waitForLoad(Session, waitUntil, timeoutMs, OrElse(timeoutMs, 30000)))
    /\ UNCHANGED <<answered, nEvents>>
    /\ UNCHANGED <<hostVars, targetVars, proxyVars>>

handleNetworkWaitForResponse(method, timeoutMs) ==
    /\ ws # 0
    /\ Becomes(waitForResponse(Session, method, timeoutMs, OrElse(timeoutMs, 30000)))
    /\ UNCHANGED <<answered, nEvents>>
    /\ UNCHANGED <<hostVars, targetVars, proxyVars>>

handleDialogWait(timeoutMs, autoHandle, promptText) ==
    /\ ws # 0
    /\ Becomes(waitForDialog(Session, timeoutMs, OrElse(timeoutMs, 30000), autoHandle,
                             promptText))
    /\ UNCHANGED <<answered, nEvents>>
    /\ UNCHANGED <<hostVars, targetVars, proxyVars>>

handlePageWaitForNetworkIdle(timeoutMs, maxInflight) ==
    /\ ws # 0
    /\ Becomes(waitForNetworkIdle(Session, timeoutMs, OrElse(timeoutMs, 30000),
                                  OrElse(maxInflight, 0)))
    /\ UNCHANGED <<answered, nEvents>>
    /\ UNCHANGED <<hostVars, targetVars, proxyVars>>

\* handleFileUpload(args) with args.files = files and args.nodeId = nodeId, up to
\* its first await that waits.
handleFileUpload(files, nodeId) ==
    /\ ws # 0
    /\ Becomes(setFileInputFiles(Session, files, nodeId))
    /\ UNCHANGED <<answered, nEvents>>
    /\ UNCHANGED <<hostVars, targetVars, proxyVars>>

\* handleComputer({action: 'screenshot'}) up to its first await that waits:
\* takeScreenshot asks for the layout metrics.
handleComputerScreenshot ==
    /\ ws # 0
    /\ Becomes(send(Session, "Page.getLayoutMetrics", 0, "layout", FALSE))
    /\ UNCHANGED <<answered, nEvents>>
    /\ UNCHANGED <<hostVars, targetVars, proxyVars>>

handleFileChooserWait(timeoutMs) ==
    /\ ws # 0
    /\ Becomes(waitForFileChooser(Session, timeoutMs, OrElse(timeoutMs, 30000)))
    /\ UNCHANGED <<answered, nEvents>>
    /\ UNCHANGED <<hostVars, targetVars, proxyVars>>

\* The timeout timer of wait w fires: the listeners are removed and the wait rejects.
\* A timer set for 0 ms fires in the next round of the event loop; a message that is
\* already readable can be handled before it.
WaitTimerFires(w) ==
    /\ w \in 1..Len(waits)
    /\ waits[w].timer
    /\ Becomes([off(Session, w) EXCEPT !.waits[w].timer = FALSE,
                                       !.waits[w].idleTimer = FALSE,
                                       !.waits[w].state = "timeout"])
    /\ UNCHANGED <<answered, nEvents>>
    /\ UNCHANGED <<hostVars, targetVars, proxyVars>>

\* The idle timer of waitForNetworkIdle call w fires: cleanup, and the wait resolves.
IdleTimerFires(w) ==
    /\ w \in 1..Len(waits)
    /\ waits[w].idleTimer
    /\ Becomes([off(Session, w) EXCEPT !.waits[w].timer = FALSE,
                                       !.waits[w].idleTimer = FALSE,
                                       !.waits[w].state = "resolved"])
    /\ UNCHANGED <<answered, nEvents>>
    /\ UNCHANGED <<hostVars, targetVars, proxyVars>>

----------------------------------------------------------------------------
\* CDPHost

\* An envelope id is a JSON value: the string "7" or the number 7.
EnvelopeIds == {[t |-> "str", v |-> 7], [t |-> "num", v |-> 7], [t |-> "str", v |-> 8]}

\* String(id): the number 7 and the string "7" give the same key "7".
String(id) == id.v

\* The names handleToolCall's switch knows.
KnownTools == {"tabs_context_mcp", "tabs_create_mcp", "navigate", "computer", "read_page",
               "get_page_text", "javascript_tool", "find", "form_input", "cookies_get",
               "cookies_set", "cookies_delete", "cookies_clear", "network_headers",
               "network_cache", "network_block", "page_reload", "page_wait_for_load",
               "page_wait_for_network_idle", "network_wait_for_response", "element_query",
               "element_query_all", "element_scroll_into_view", "element_box_model",
               "element_focus", "element_html", "dialog_handle", "dialog_wait",
               "file_upload", "file_chooser_wait", "emulate_device", "emulate_geolocation",
               "emulate_timezone", "emulate_user_agent", "console_enable",
               "console_messages", "console_clear", "performance_metrics",
               "page_layout_metrics"}

\* The tool names the clients of the model send: one the switch knows, one it does not.
ToolNames == {"cookies_get", "no_such_tool"}

\* The client sendResponse / sendError look up for envelope id `id`: 0 when there is none.
RouteOf(map, conn, id) ==
    IF MapHas(map, String(id)) /\ map[String(id)] \in conn THEN map[String(id)] ELSE 0

\* A sendResponse / sendError that writes the envelope and keeps the routing entry.
EmitKeepsRoute(map, conn, sent, k, id, kind, orig) ==
    LET to == RouteOf(map, conn, id) IN
    IF to = 0
    THEN [map |-> map, sent |-> sent]
    ELSE [map |-> map,
          sent |-> sent \cup {[to |-> to, id |-> id, kind |-> kind, call |-> k,
                               origConnected |-> orig \in conn]}]

\* sendResponse(id, result) and sendError(id, error) differ only in the payload (`kind`).
\* k is the call that emits. The envelope carries the id as received.
Emit(map, conn, sent, k, id, kind, orig) ==
    LET to == RouteOf(map, conn, id) IN
    IF to = 0
    THEN [map |-> map, sent |-> sent]
    ELSE [map |-> MapDelete(map, String(id)),
          sent |-> sent \cup {[to |-> to, id |-> id, kind |-> kind, call |-> k,
                               origConnected |-> orig \in conn]}]

sendResponse(map, conn, sent, k, id, orig) == Emit(map, conn, sent, k, id, "result", orig)
sendError(map, conn, sent, k, id, orig) == Emit(map, conn, sent, k, id, "error", orig)

InitHostVars ==
    /\ clients = {}
    /\ clientCounter = 0
    /\ requestToClient = EmptyMap
    /\ calls = << >>
    /\ delivered = {}
    /\ raced = {}

\* wsServer.onConnection
OnConnection ==
    /\ clientCounter < MaxClients
    /\ clientCounter' = clientCounter + 1
    /\ clients' = clients \cup {clientCounter + 1}
    /\ UNCHANGED <<requestToClient, calls, delivered, raced>>
    /\ UNCHANGED <<cdpVars, targetVars, proxyVars>>

\* client.onMessage: record the route, then run handleToolCall up to its first await.
\* An unknown tool name throws inside the try block before any await, so its error
\* envelope is emitted in the same turn; a known tool awaits its handler.
OnMessage(c, id, tool) ==
    /\ c \in clients
    /\ Len(calls) < MaxCalls
    /\ LET k == Len(calls) + 1
           map1 == MapSet(requestToClient, String(id), c)
       IN IF tool \in KnownTools
          THEN /\ requestToClient' = map1
               /\ calls' = Append(calls, [client |-> c, id |-> id, tool |-> tool,
                                          state |-> "running", outcome |-> "none"])
               /\ UNCHANGED delivered
          ELSE LET r == sendError(map1, clients, delivered, k, id, c) IN
               /\ requestToClient' = r.map
               /\ delivered' = r.sent
               /\ calls' = Append(calls, [client |-> c, id |-> id, tool |-> tool,
                                          state |-> "done", outcome |-> "threw"])
    /\ UNCHANGED <<clients, clientCounter, raced>>
    /\ UNCHANGED <<cdpVars, targetVars, proxyVars>>

\* handleToolCall after its handler settled: sendResponse if it returned,
\* sendError (from the catch block) if it threw.
HandlerSettles(k, outcome) ==
    /\ k \in 1..Len(calls)
    /\ calls[k].state = "running"
    /\ LET r == IF outcome = "returned"
                THEN sendResponse(requestToClient, clients, delivered, k, calls[k].id,
                                  calls[k].client)
                ELSE sendError(requestToClient, clients, delivered, k, calls[k].id,
                               calls[k].client)
       IN /\ requestToClient' = r.map
          /\ delivered' = r.sent
    /\ calls' = [calls EXCEPT ![k].state = "done", ![k].outcome = outcome]
    /\ UNCHANGED <<clients, clientCounter, raced>>
    /\ UNCHANGED <<cdpVars, targetVars, proxyVars>>

\* client.onClose
OnClose(c) ==
    /\ c \in clients
    /\ clients' = clients \ {c}
    /\ requestToClient' = [x \in {y \in DOMAIN requestToClient : requestToClient[y] # c}
                             |-> requestToClient[x]]
    /\ raced' = raced \cup
          {p \in (1..Len(calls)) \X (1..Len(calls)) :
              /\ calls[p[1]].client = c
              /\ calls[p[2]].client # c
              /\ calls[p[2]].client \in clients
              /\ calls[p[1]].state = "running"
              /\ calls[p[2]].state = "running"
              /\ calls[p[1]].id = calls[p[2]].id}
    /\ UNCHANGED <<clientCounter, calls, delivered>>
    /\ UNCHANGED <<cdpVars, targetVars, proxyVars>>

NextHost ==
    \/ OnConnection
    \/ \E c \in clients, id \in EnvelopeIds, tool \in ToolNames : OnMessage(c, id, tool)
    \/ \E k \in 1..Len(calls), outcome \in {"returned", "threw"} : HandlerSettles(k, outcome)
    \/ \E c \in clients : OnClose(c)

InitHost == InitHostVars /\ InitCDPVars /\ InitTargetVars /\ InitProxyVars

SpecHost == InitHost /\ [][NextHost]_vars

\* The routing map: connections, tool calls under the three envelope ids, known and
\* unknown tools, completions and disconnects.
NextRoutes ==
    \/ /\ clientCounter < RouteClients
       /\ OnConnection
    \/ /\ Len(calls) < RouteCalls
       /\ \E c \in clients, id \in EnvelopeIds, tool \in ToolNames : OnMessage(c, id, tool)
    \/ \E k \in 1..Len(calls), outcome \in {"returned", "threw"} : HandlerSettles(k, outcome)
    \/ \E c \in clients : OnClose(c)

SpecRoutes == InitHost /\ [][NextRoutes]_vars

InitCDP == InitHostVars /\ InitCDPVars /\ InitTargetVars /\ InitProxyVars

\* The number of send calls querySelector makes.
QuerySends == IF rootNodeId = 0 THEN 2 ELSE 1

\* Command correlation: connections, target switches, commands, responses, events,
\* timers and socket closes.
NextCmd ==
    \/ /\ Len(socks) + Len(conns) < CmdSockets
       /\ \E ref \in {"none", "B"} : ConnectToTarget(ref)
    \/ \E c \in 1..Len(conns), ok \in BOOLEAN : TargetsResolved(c, ok)
    \/ \E s \in 1..Len(socks) : SocketOpen(s)
    \/ \E s \in 1..Len(socks) : SocketClosed(s)
    \/ /\ Len(sends) < CmdSends
       /\ Command("Network.getCookies")
    \/ \E k \in 1..Len(sends), error \in BOOLEAN : Response(k, error, 0)
    \/ /\ nEvents < CmdEvents
       /\ \E s \in 1..Len(socks) : Event(s, EventMessage("DOM.documentUpdated", 0, 0, ""))
    \/ \E id \in timers : TimerFires(id)

SpecCmd == InitCDP /\ [][NextCmd]_vars

\* Document version and node references: connections, socket closes, document
\* events, queries and node commands, in the time before any command timer fires.
DocumentEvents == {EventMessage("DOM.documentUpdated", 0, 0, ""),
                   EventMessage("Page.frameNavigated", 0, 0, ""),
                   EventMessage("Page.frameNavigated", 5, 0, "")}

NextDoc ==
    \/ /\ Len(socks) + Len(conns) < DocSockets
       /\ \E ref \in {"none", "B"} : ConnectToTarget(ref)
    \/ \E c \in 1..Len(conns) : TargetsResolved(c, TRUE)
    \/ \E s \in 1..Len(socks) : SocketOpen(s)
    \/ \E s \in 1..Len(socks) : SocketClosed(s)
    \/ /\ Len(sends) + QuerySends <= DocSends
       /\ querySelector
    \/ /\ Len(sends) < DocSends
       /\ \E ref \in refs : querySelectorScoped(ref)
    \/ /\ Len(sends) < DocSends
       /\ \E ref \in refs, method \in NodeCommands : NodeCommand(method, ref)
    \/ \E k \in 1..Len(sends), error \in BOOLEAN, val \in {0, 1, 2} : Response(k, error, val)
    \/ /\ nEvents < DocEvents
       /\ \E s \in 1..Len(socks), msg \in DocumentEvents : Event(s, msg)

SpecDoc == InitCDP /\ [][NextDoc]_vars

\* Capacity: one session receives a long run of Network.requestWillBeSent events,
\* each for a new request.
NextCap ==
    \/ /\ Len(socks) + Len(conns) < 1
       /\ ConnectToTarget("none")
    \/ \E c \in 1..Len(conns) : TargetsResolved(c, TRUE)
    \/ \E s \in 1..Len(socks) : SocketOpen(s)
    \/ /\ nEvents < CapEvents
       /\ \E s \in 1..Len(socks) :
             Event(s, EventMessage("Network.requestWillBeSent", 0, nEvents + 1, "GET"))

SpecCap == InitCDP /\ [][NextCap]_vars

\* Tabs: tool calls that name no tab, tab 0 by its index, or tab B by its id, each
\* connecting through ensureConnected and then sending its command, while the
\* browser answers the commands of each socket in the order they were written and
\* the document is updated.
Fetching == Cardinality({c \in 1..Len(conns) : conns[c].pc = "getTargets"})

ToolCalls == Len(conns) + Cardinality({k \in 1..Len(sends) :
                                          sends[k].method = "Network.getCookies"})

NextToAnswer(k) ==
    {j \in 1..(k - 1) : /\ j \notin answered /\ sends[j].id # 0
                         /\ sends[j].sock = sends[k].sock} = {}

NextTabs ==
    \/ /\ Len(socks) + Fetching < TabSockets
       /\ ToolCalls < TabCalls
       /\ \E tab \in {"none", "#0", "B"} : handleCookiesGet(tab)
    \/ \E c \in 1..Len(conns) : TargetsResolved(c, TRUE)
    \/ \E s \in 1..Len(socks) : SocketOpen(s)
    \/ \E k \in 1..Len(sends) : NextToAnswer(k) /\ Response(k, FALSE, 0)
    \/ /\ nEvents < TabEvents
       /\ \E s \in 1..Len(socks) :
             Event(s, EventMessage("DOM.documentUpdated", 0, 0, ""))

SpecTabs == InitCDP /\ [][NextTabs]_vars

\* A first tool call binds the session; the others are made while its socket is open,
\* for the bound tab by index or by id, or for another tab.
NextReuse ==
    \/ /\ Len(socks) + Len(conns) < 1
       /\ handleCookiesGet("#0")
    \/ /\ IsOpen(Session)
       /\ ToolCalls < 1 + ReuseCalls
       /\ \E tab \in {"#0", "A", "B"} : handleCookiesGet(tab)
    \/ \E c \in 1..Len(conns) : TargetsResolved(c, TRUE)
    \/ \E s \in 1..Len(socks) : SocketOpen(s)
    \/ \E k \in 1..Len(sends) : NextToAnswer(k) /\ Response(k, FALSE, 0)
    \/ /\ nEvents < ReuseEvents
       /\ \E s \in 1..Len(socks) : Event(s, EventMessage("DOM.documentUpdated", 0, 0, ""))

SpecReuse == InitCDP /\ [][NextReuse]_vars

\* The tool calls made so far, navigate included.
AllToolCalls == Len(conns) + Cardinality({k \in 1..Len(sends) :
                   sends[k].method \in {"Network.getCookies", "Page.navigate"}})

\* A first tool call binds the session to tab B; the others are made one at a time
\* while its socket is open: cookies_get and navigate with tabId 0, 1 or none.
NextZero ==
    \/ /\ Len(socks) + Len(conns) < 1
       /\ handleCookiesGet("B")
    \/ /\ IsOpen(Session) /\ conns = << >>
       /\ AllToolCalls < 1 + ZeroCalls
       /\ \E tab \in {"#0", "#1", "none"} : handleCookiesGet(tab)
    \/ /\ IsOpen(Session) /\ conns = << >>
       /\ AllToolCalls < 1 + ZeroCalls
       /\ \E tab \in {"#0", "#1", "none"} : handleNavigate(tab)
    \/ \E c \in 1..Len(conns) : TargetsResolved(c, TRUE)
    \/ \E s \in 1..Len(socks) : SocketOpen(s)
    \/ \E k \in 1..Len(sends) : NextToAnswer(k) /\ Response(k, FALSE, 0)

SpecZero == InitCDP /\ [][NextZero]_vars

\* The sockets that are open or opening.
Live == {s \in 1..Len(socks) : socks[s].state \in {"CONNECTING", "OPEN"}}

\* Tool calls with no tabId, each made while no socket is open: before the first
\* connection attempt, while the target list is fetched, while a socket is opening.
NextBoth ==
    \/ /\ ToolCalls < BothCalls
       /\ {s \in 1..Len(socks) : socks[s].state = "OPEN"} = {}
       /\ handleCookiesGet("none")
    \/ \E c \in 1..Len(conns) : TargetsResolved(c, TRUE)
    \/ \E s \in 1..Len(socks) : SocketOpen(s)
    \/ \E k \in 1..Len(sends) : NextToAnswer(k) /\ Response(k, FALSE, 0)

SpecBoth == InitCDP /\ [][NextBoth]_vars

\* The sockets that have closed.
Closed == {s \in 1..Len(socks) : socks[s].state = "CLOSED"}

\* A first tool call binds the session, the browser closes the bound socket once it
\* is open, and the other tool calls are made after that, while no socket is bound.
NextLost ==
    \/ /\ Len(socks) + Len(conns) < 1
       /\ handleCookiesGet("none")
    \/ /\ Closed = {}
       /\ IsOpen(Session)
       /\ SocketClosed(ws)
    \/ /\ Closed # {}
       /\ ws = 0
       /\ ToolCalls < 1 + LostCalls
       /\ \E tab \in {"none", "A"} : handleCookiesGet(tab)
    \/ \E c \in 1..Len(conns) : TargetsResolved(c, TRUE)
    \/ \E s \in 1..Len(socks) : SocketOpen(s)
    \/ \E k \in 1..Len(sends) : NextToAnswer(k) /\ Response(k, FALSE, 0)

SpecLost == InitCDP /\ [][NextLost]_vars

\* file_upload calls on a bound session, for every list of paths.
NextUpload ==
    \/ /\ Len(socks) + Len(conns) < 1
       /\ ConnectToTarget("none")
    \/ \E c \in 1..Len(conns) : TargetsResolved(c, TRUE)
    \/ \E s \in 1..Len(socks) : SocketOpen(s)
    \/ /\ Len(uploads) < UploadCalls
       /\ \E files \in FileLists : handleFileUpload(files, 2)
    \/ \E k \in 1..Len(sends) : Response(k, FALSE, 0)

SpecUpload == InitCDP /\ [][NextUpload]_vars

\* The session bound after a switch has something of each kind to lose.
HasState ==
    /\ IsOpen(Session) /\ domainsEnabled # {} /\ eventListeners # {}
    /\ eventQueue # << >> /\ networkRequests # << >> /\ docVersion > 0

\* A tool call binds the session to tab 0, another switches it to tab B, and the
\* close callback of the superseded socket runs once the new session has enabled
\* domains, a listener, queued events, a tracked request and a document version.
NextStale ==
    \/ /\ Len(socks) + Len(conns) < 1
       /\ handleCookiesGet("#0")
    \/ /\ IsOpen(Session)
       /\ ToolCalls < 1 + StaleCalls
       /\ handleCookiesGet("B")
    \/ \E c \in 1..Len(conns) : TargetsResolved(c, TRUE)
    \/ \E s \in 1..Len(socks) : SocketOpen(s)
    \/ \E k \in 1..Len(sends) : NextToAnswer(k) /\ Response(k, FALSE, 0)
    \/ /\ Len(waits) < 1
       /\ IsOpen(Session)
       /\ handlePageWaitForLoad("load", 100)
    \/ /\ nEvents < 2 * StaleEvents
       /\ ws # 0 /\ docVersion = 0
       /\ Event(ws, EventMessage("DOM.documentUpdated", 0, 0, ""))
    \/ /\ nEvents < 2 * StaleEvents
       /\ ws # 0 /\ networkRequests = << >>
       /\ Event(ws, EventMessage("Network.requestWillBeSent", 0, 1, "GET"))
    \/ /\ HasState
       /\ \E s \in 1..Len(socks) : s # ws /\ SocketClosed(s)

SpecStale == InitCDP /\ [][NextStale]_vars

\* A tool call binds the session to tab 0; once the session has enabled domains, a
\* listener, queued events and a tracked request, the browser closes the bound socket
\* or a tool call switches the session to tab B.
NextGone ==
    \/ /\ Len(socks) + Len(conns) < 1
       /\ handleCookiesGet("#0")
    \/ /\ HasState
       /\ ToolCalls < 1 + GoneCalls
       /\ handleCookiesGet("B")
    \/ \E c \in 1..Len(conns) : TargetsResolved(c, TRUE)
    \/ \E s \in 1..Len(socks) : SocketOpen(s)
    \/ \E k \in 1..Len(sends) : NextToAnswer(k) /\ Response(k, FALSE, 0)
    \/ /\ eventListeners = {}
       /\ IsOpen(Session)
       /\ handlePageWaitForLoad("load", 100)
    \/ /\ nEvents < GoneEvents
       /\ ws # 0 /\ docVersion = 0
       /\ Event(ws, EventMessage("DOM.documentUpdated", 0, 0, ""))
    \/ /\ nEvents < GoneEvents
       /\ ws # 0 /\ networkRequests = << >>
       /\ Event(ws, EventMessage("Network.requestWillBeSent", 0, 1, "GET"))
    \/ /\ HasState
       /\ SocketClosed(ws)

SpecGone == InitCDP /\ [][NextGone]_vars

\* Commands sent across timeouts, socket closes, reconnections and target switches.
NextIds ==
    \/ /\ Len(socks) + Len(conns) < IdSockets
       /\ \E ref \in {"none", "B"} : ConnectToTarget(ref)
    \/ \E c \in 1..Len(conns) : TargetsResolved(c, TRUE)
    \/ \E s \in 1..Len(socks) : SocketOpen(s)
    \/ \E s \in 1..Len(socks) : SocketClosed(s)
    \/ /\ Len(sends) < IdSends
       /\ Command("Network.getCookies")
    \/ \E id \in timers : TimerFires(id)

SpecIds == InitCDP /\ [][NextIds]_vars

\* The screenshot calls made so far.
Shots == Cardinality({k \in 1..Len(sends) : sends[k].method = "Page.getLayoutMetrics"})

\* Screenshot calls on a bound session; the browser answers each command with a
\* result or an error.
NextShot ==
    \/ /\ Len(socks) + Len(conns) < 1
       /\ ConnectToTarget("none")
    \/ \E c \in 1..Len(conns) : TargetsResolved(c, TRUE)
    \/ \E s \in 1..Len(socks) : SocketOpen(s)
    \/ /\ Shots < ShotCalls
       /\ handleComputerScreenshot
    \/ \E k \in 1..Len(sends), error \in BOOLEAN, val \in Images \cup {0} :
          Response(k, error, val)

SpecShot == InitCDP /\ [][NextShot]_vars

\* Target discovery: the browser has some targets, pages and others; every
\* connectToTarget(k) receives them from /json/list in some order.
TargetSets ==
    {ts \in SUBSET [id : 1..MaxTargets, type : {"page", "other"}] :
        \A t1, t2 \in ts : t1.id = t2.id => t1 = t2}

Listings(ts) ==
    {list \in [1..Cardinality(ts) -> ts] : \A t \in ts : \E i \in DOMAIN list : list[i] = t}

InitTargets ==
    /\ InitHostVars /\ InitCDPVars /\ InitProxyVars
    /\ targets \in TargetSets
    /\ listed = << >>
    /\ resolutions = {}

ResolveIndex(index, list) ==
    /\ listed' = list
    /\ resolutions' = resolutions \cup {resolveIndex(list, index)}
    /\ UNCHANGED <<targets, hostVars, cdpVars, proxyVars>>

NextTargets ==
    \E index \in -1..MaxTargets, list \in Listings(targets) :
        ResolveIndex(index, list)

SpecTargets == InitTargets /\ [][NextTargets]_vars

\* Responses: the page sends one request after the other, request i with the method
\* MethodOf(i); the responses looked at are those that arrive once the registry is
\* full: for the oldest request ever made (evicted by then), for the latest one, and
\* for a request that was never announced; the resource type of a response is "XHR"
\* or a value that reads like a method.
LastRequestId ==
    IF networkRequests = << >> THEN 0
    ELSE networkRequests[Len(networkRequests)].requestId

MethodOf(requestId) == IF requestId % 2 = 1 THEN "GET" ELSE "POST"

ResponsesSeen == Cardinality({i \in 1..Len(eventQueue) :
                                 eventQueue[i].method = "Network.responseReceived"})

NextResp ==
    \/ /\ Len(socks) + Len(conns) < 1
       /\ ConnectToTarget("none")
    \/ \E c \in 1..Len(conns) : TargetsResolved(c, TRUE)
    \/ \E s \in 1..Len(socks) : SocketOpen(s)
    \/ /\ Len(waits) < RespWaits
       /\ Len(networkRequests) >= maxNetworkRequests - 1
       /\ WaitForResponse("GET", 100)
    \/ /\ Len(waits) < RespWaits
       /\ Len(networkRequests) >= maxNetworkRequests - 1
       /\ handleNetworkWaitForResponse("POST", 100)
    \/ \E w \in 1..Len(waits) : WaitTimerFires(w)
    \/ /\ LastRequestId < RespRequests
       /\ \E s \in 1..Len(socks) :
             Event(s, EventMessage("Network.requestWillBeSent", 0, LastRequestId + 1,
                                   MethodOf(LastRequestId + 1)))
    \/ /\ ResponsesSeen < RespResponses
       /\ Len(networkRequests) = maxNetworkRequests
       /\ \E s \in 1..Len(socks), type \in {"XHR", "GET"},
             requestId \in {1, LastRequestId} :
             Event(s, TypedEvent("Network.responseReceived", requestId, type, "", "main"))

SpecResp == InitCDP /\ [][NextResp]_vars

\* Network idle: waitForNetworkIdle calls with maxInflight 0 or 1 while requests of
\* type XHR or WebSocket start, finish and fail, and the timers fire.
IdleEventSet ==
    {TypedEvent("Network.requestWillBeSent", 1, type, "", "main") :
         type \in {"XHR", "WebSocket"}}
    \cup {TypedEvent(method, 1, "", "", "main") :
             method \in {"Network.loadingFinished", "Network.loadingFailed"}}

NextIdle ==
    \/ /\ Len(socks) + Len(conns) < 1
       /\ ConnectToTarget("none")
    \/ \E c \in 1..Len(conns) : TargetsResolved(c, TRUE)
    \/ \E s \in 1..Len(socks) : SocketOpen(s)
    \/ \E s \in 1..Len(socks) : SocketClosed(s)
    \/ /\ Len(waits) < IdleWaits
       /\ \E maxInflight \in {0, 1} : WaitForNetworkIdle(100, maxInflight)
    \/ /\ Len(waits) < IdleWaits
       /\ \E maxInflight \in {0, 1} : handlePageWaitForNetworkIdle(100, maxInflight)
    \/ \E w \in 1..Len(waits) : WaitTimerFires(w)
    \/ \E w \in 1..Len(waits) : IdleTimerFires(w)
    \/ /\ nEvents < IdleEvents
       /\ \E s \in 1..Len(socks), msg \in IdleEventSet : Event(s, msg)

SpecIdle == InitCDP /\ [][NextIdle]_vars

\* Page load: waitForLoad and waitForEvent-based tools called with a timeout of 0 or
\* 100 ms, directly and through the tools, while lifecycle events of the top frame and
\* of an iframe and dialogs arrive, and the timers fire.
LoadEventSet ==
    {TypedEvent("Page.lifecycleEvent", 0, "", name, frame) :
         name \in {"load", "DOMContentLoaded"}, frame \in {"main", "child"}}
    \cup {TypedEvent("Page.javascriptDialogOpening", 0, "alert", "", "main")}

NextLoad ==
    \/ /\ Len(socks) + Len(conns) < 1
       /\ ConnectToTarget("none")
    \/ \E c \in 1..Len(conns) : TargetsResolved(c, TRUE)
    \/ \E s \in 1..Len(socks) : SocketOpen(s)
    \/ /\ Len(waits) < LoadWaits
       /\ \E waitUntil \in {"load", "domcontentloaded"}, timeoutMs \in {0, 100} :
             WaitForLoad(waitUntil, timeoutMs)
    \/ /\ Len(waits) < LoadWaits
       /\ \E waitUntil \in {"load", "domcontentloaded"}, timeoutMs \in {0, 100} :
             handlePageWaitForLoad(waitUntil, timeoutMs)
    \/ /\ Len(waits) < LoadWaits
       /\ \E timeoutMs \in {0, 100} : handleDialogWait(timeoutMs, FALSE, "undefined")
    \/ \E w \in 1..Len(waits) : WaitTimerFires(w)
    \/ /\ nEvents < LoadEvents
       /\ \E s \in 1..Len(socks), msg \in LoadEventSet : Event(s, msg)

SpecLoad == InitCDP /\ [][NextLoad]_vars

\* Dialogs and file choosers: waitForDialog with and without autoHandle and prompt
\* text, waitForFileChooser, the dialogs of the four types and the file chooser
\* opening, the answers to the commands sent, and the timers.
DialogEventSet ==
    {TypedEvent("Page.javascriptDialogOpening", 0, type, "", "main") :
         type \in {"alert", "confirm", "prompt", "beforeunload"}}
    \cup {TypedEvent("Page.fileChooserOpened", 0, "", "", "main")}

NextDialog ==
    \/ /\ Len(socks) + Len(conns) < 1
       /\ ConnectToTarget("none")
    \/ \E c \in 1..Len(conns) : TargetsResolved(c, TRUE)
    \/ \E s \in 1..Len(socks) : SocketOpen(s)
    \/ /\ Len(waits) < DialogWaits
       /\ \E autoHandle \in BOOLEAN, promptText \in {"undefined", "abc"} :
             WaitForDialog(100, autoHandle, promptText)
    \/ /\ Len(waits) < DialogWaits
       /\ \E autoHandle \in BOOLEAN, promptText \in {"undefined", "abc"} :
             handleDialogWait(100, autoHandle, promptText)
    \/ /\ Len(waits) < DialogWaits
       /\ WaitForFileChooser(100)
    \/ /\ Len(waits) < DialogWaits
       /\ handleFileChooserWait(100)
    \/ \E k \in 1..Len(sends), error \in BOOLEAN : Response(k, error, 0)
    \/ \E id \in timers : TimerFires(id)
    \/ \E w \in 1..Len(waits) : WaitTimerFires(w)
    \/ /\ nEvents < DialogEvents
       /\ \E s \in 1..Len(socks), msg \in DialogEventSet : Event(s, msg)

SpecDialog == InitCDP /\ [][NextDialog]_vars

\* Events that came before a wait: waitForDialog and waitForLoad calls, a dialog and a
\* load event, and the timers of the waits.
ReplayEventSet ==
    {TypedEvent("Page.javascriptDialogOpening", 0, "alert", "", "main"),
     TypedEvent("Page.lifecycleEvent", 0, "", "load", "main")}

NextReplay ==
    \/ /\ Len(socks) + Len(conns) < 1
       /\ ConnectToTarget("none")
    \/ \E c \in 1..Len(conns) : TargetsResolved(c, TRUE)
    \/ \E s \in 1..Len(socks) : SocketOpen(s)
    \/ /\ Len(waits) < ReplayWaits
       /\ WaitForDialog(100, FALSE, "undefined")
    \/ /\ Len(waits) < ReplayWaits
       /\ WaitForLoad("load", 100)
    \/ \E w \in 1..Len(waits) : WaitTimerFires(w)
    \/ /\ nEvents < ReplayEvents
       /\ \E s \in 1..Len(socks), msg \in ReplayEventSet : Event(s, msg)

SpecReplay == InitCDP /\ [][NextReplay]_vars

\* Requests around a wait for network idle: request 1 is announced before the first
\* waitForNetworkIdle call, request 2 after it; either can finish or fail at any
\* time after that; the timers of the wait.
NextBusy ==
    \/ /\ Len(socks) + Len(conns) < 1
       /\ ConnectToTarget("none")
    \/ \E c \in 1..Len(conns) : TargetsResolved(c, TRUE)
    \/ \E s \in 1..Len(socks) : SocketOpen(s)
    \/ /\ Len(waits) < BusyWaits
       /\ handlePageWaitForNetworkIdle(100, 0)
    \/ /\ nEvents < BusyEvents /\ waits = << >>
       /\ \E s \in 1..Len(socks) :
             Event(s, EventMessage("Network.requestWillBeSent", 0, 1, "GET"))
    \/ /\ nEvents < BusyEvents /\ waits # << >>
       /\ \E s \in 1..Len(socks) :
             Event(s, EventMessage("Network.requestWillBeSent", 0, 2, "GET"))
    \/ /\ nEvents < BusyEvents /\ waits # << >>
       /\ \E s \in 1..Len(socks), requestId \in {1, 2},
             method \in {"Network.loadingFinished", "Network.loadingFailed"} :
             Event(s, EventMessage(method, 0, requestId, ""))
    \/ \E w \in 1..Len(waits) : WaitTimerFires(w)
    \/ \E w \in 1..Len(waits) : IdleTimerFires(w)

SpecBusy == InitCDP /\ [][NextBusy]_vars

\* Waits across the loss of the session: waitForDialog and waitForNetworkIdle calls,
\* one switch from the first tab to tab B, the close of any socket, a dialog or a
\* request delivered by the bound socket while a listener is registered, and the
\* timers. A timer that is armed fires unless it is cancelled first.
NextSettle ==
    \/ /\ Len(socks) + Len(conns) < 1
       /\ ConnectToTarget("none")
    \/ /\ IsOpen(Session) /\ targetId = PageTargets[1] /\ conns = << >>
       /\ ConnectToTarget("B")
    \/ \E c \in 1..Len(conns) : TargetsResolved(c, TRUE)
    \/ \E s \in 1..Len(socks) : SocketOpen(s)
    \/ \E s \in 1..Len(socks) : SocketClosed(s)
    \/ /\ Len(waits) < SettleWaits
       /\ WaitForDialog(100, FALSE, "undefined")
    \/ /\ Len(waits) < SettleWaits
       /\ WaitForNetworkIdle(100, 0)
    \/ /\ nEvents < SettleEvents /\ ws # 0 /\ eventListeners # {}
       /\ Event(ws, TypedEvent("Page.javascriptDialogOpening", 0, "alert", "", "main"))
    \/ /\ nEvents < SettleEvents /\ ws # 0 /\ eventListeners # {}
       /\ Event(ws, EventMessage("Network.requestWillBeSent", 0, 1, "GET"))
    \/ \E w \in 1..Len(waits) : WaitTimerFires(w)
    \/ \E w \in 1..Len(waits) : IdleTimerFires(w)

SpecSettle ==
    /\ InitCDP /\ [][NextSettle]_vars
    /\ \A w \in 1..SettleWaits : WF_vars(WaitTimerFires(w))

\* Callbacks that throw: waitForResponse with and without the url option, responses
\* with the url asked for, with another url and with no response object in params,
\* requests, and the timers of the waits.
ThrowEventSet ==
    {[TypedEvent("Network.responseReceived", 1, "XHR", "", "main") EXCEPT !.url = url] :
         url \in {"absent", "u", "v"}}
    \cup {EventMessage("Network.requestWillBeSent", 0, 1, "GET")}

NextThrow ==
    \/ /\ Len(socks) + Len(conns) < 1
       /\ ConnectToTarget("none")
    \/ \E c \in 1..Len(conns) : TargetsResolved(c, TRUE)
    \/ \E s \in 1..Len(socks) : SocketOpen(s)
    \/ /\ Len(waits) < ThrowWaits
       /\ WaitForResponseUrl("u", 100)
    \/ /\ Len(waits) < ThrowWaits
       /\ WaitForResponse("", 100)
    \/ \E w \in 1..Len(waits) : WaitTimerFires(w)
    \/ /\ nEvents < ThrowEvents
       /\ \E s \in 1..Len(socks), msg \in ThrowEventSet : Event(s, msg)

SpecThrow == InitCDP /\ [][NextThrow]_vars

----------------------------------------------------------------------------
\* MCPServer (src/wsl-bridge/src/mcp-server.js): the proxy between stdio and the host

\* String(id) and parseInt(reqId, 10): the envelope carries the request id as a string
\* (mcp-server.js 779, part_001 1774) and the keys of pendingRequests are the ids as
\* read from stdin (numbers).
StringOf(id) == [n |-> id, type |-> "string"]
NumberOf(id) == [n |-> id, type |-> "number"]
parseInt(reqId) == NumberOf(reqId.n)

\* MCPServer.sendResponse and MCPServer.sendError: one line appended to stdout.
mcpSendResponse(out, id, text) ==
    Append(out, [id |-> id, kind |-> "result", text |-> text])

mcpSendError(out, id, message) ==
    Append(out, [id |-> id, kind |-> "error", text |-> message])

RECURSIVE mcpSendErrors(_, _, _)
mcpSendErrors(out, keys, message) ==
    IF keys = << >> THEN out
    ELSE mcpSendErrors(mcpSendError(out, NumberOf(Head(keys)), message), Tail(keys), message)

\* The call the connection attempt k was made for, once its promise is rejected:
\* start() logs a warning, handleToolCall answers with the reconnect error.
rejected(out, k) ==
    IF connects[k].call = 0 THEN out
    ELSE mcpSendError(out, NumberOf(connects[k].call), "Not connected to Chrome extension")

\* connectWebSocket up to the return of the promise: a new socket replaces this.ws and
\* the 5 s timer is armed.
connectWebSocket(call) ==
    /\ bridgeSocks' = Append(bridgeSocks, "CONNECTING")
    /\ bridgeWs' = Len(bridgeSocks) + 1
    /\ connects' = Append(connects, [sock |-> Len(bridgeSocks) + 1, state |-> "pending",
                                     timeout |-> TRUE, call |-> call])

\* MCPServer.handleToolCall from the storing of the pending request to the end: the request is
\* stored, its 60 s timer armed and the envelope written with this.ws.send.  On a
\* socket that is not OPEN nothing is written; send may throw there, the promise of
\* handleToolCall is then rejected with nobody handling it, and the process
\* terminates or not (thrown).
forward(id, sockets, thrown) ==
    /\ pendingRequests' = Append(pendingRequests, id)
    /\ requestTimers' = requestTimers \cup {id}
    /\ IF sockets[bridgeWs] = "OPEN"
       THEN /\ forwarded' = forwarded \cup {[id |-> id, sock |-> bridgeWs]}
            /\ exited' = exited
       ELSE /\ forwarded' = forwarded
            /\ exited' = thrown

\* start(): the first connection attempt; stdin is read once it has settled.
Start ==
    /\ ~exited
    /\ connects = << >>
    /\ connectWebSocket(0)
    /\ UNCHANGED <<connected, pendingRequests, requestTimers, forwarded, stdout, nRead,
                   nReplies, unwritten, exited>>
    /\ UNCHANGED <<hostVars, cdpVars, targetVars>>

StdioReady == connects # << >> /\ connects[1].state # "pending"

\* MCPServer.handleToolCall for the next tools/call request of stdin, up to its first await or
\* to its end.
mcpHandleToolCall ==
    /\ ~exited
    /\ StdioReady
    /\ nRead' = nRead + 1
    /\ IF ~connected \/ bridgeWs = 0 \/ bridgeSocks[bridgeWs] # "OPEN"
       THEN /\ connectWebSocket(nRead + 1)
            /\ UNCHANGED <<pendingRequests, requestTimers, forwarded, exited>>
       ELSE /\ forward(nRead + 1, bridgeSocks, FALSE)
            /\ UNCHANGED <<bridgeWs, bridgeSocks, connects>>
    /\ UNCHANGED <<connected, stdout, nReplies, unwritten>>
    /\ UNCHANGED <<hostVars, cdpVars, targetVars>>

\* The 'open' handler of the socket s, and the call awaiting its promise resumed.
BridgeOpen(s, thrown) ==
    /\ ~exited
    /\ s \in DOMAIN bridgeSocks
    /\ bridgeSocks[s] = "CONNECTING"
    /\ bridgeSocks' = [bridgeSocks EXCEPT ![s] = "OPEN"]
    /\ connected' = TRUE
    /\ connects' = [connects EXCEPT ![s].timeout = FALSE,
                                    ![s].state = IF @ = "pending" THEN "resolved" ELSE @]
    /\ IF connects[s].state = "pending" /\ connects[s].call # 0
       THEN forward(connects[s].call, bridgeSocks', thrown)
       ELSE /\ thrown = FALSE
            /\ UNCHANGED <<pendingRequests, requestTimers, forwarded, exited>>
    /\ UNCHANGED <<bridgeWs, stdout, nRead, nReplies, unwritten>>
    /\ UNCHANGED <<hostVars, cdpVars, targetVars>>

\* The 5 s timer of the connection attempt k.
ConnectTimeout(k) ==
    /\ ~exited
    /\ k \in DOMAIN connects
    /\ connects[k].timeout
    /\ connects' = [connects EXCEPT ![k].timeout = FALSE,
                                    ![k].state = IF @ = "pending" THEN "rejected" ELSE @]
    /\ stdout' = IF connects[k].state = "pending" THEN rejected(stdout, k) ELSE stdout
    /\ UNCHANGED <<bridgeWs, connected, pendingRequests, requestTimers, bridgeSocks,
                   forwarded, nRead, nReplies, unwritten, exited>>
    /\ UNCHANGED <<hostVars, cdpVars, targetVars>>

\* The 'close' handler: every pending request is answered with the error, in the
\* order of the map, and the map is cleared.
closed(out) == mcpSendErrors(out, pendingRequests, "Connection to Windows host lost")

\* A connection attempt fails: the 'error' handler, then the 'close' handler of the
\* socket s, then the call awaiting the promise, if the promise was rejected.
BridgeError(s) ==
    /\ ~exited
    /\ s \in DOMAIN bridgeSocks
    /\ bridgeSocks[s] = "CONNECTING"
    /\ bridgeSocks' = [bridgeSocks EXCEPT ![s] = "CLOSED"]
    /\ connects' = [connects EXCEPT ![s].timeout = FALSE,
                                    ![s].state = IF @ = "pending" /\ ~connected
                                                 THEN "rejected" ELSE @]
    /\ connected' = FALSE
    /\ requestTimers' = requestTimers \ {pendingRequests[i] : i \in DOMAIN pendingRequests}
    /\ pendingRequests' = << >>
    /\ stdout' = IF connects[s].state = "pending" /\ ~connected
                 THEN rejected(closed(stdout), s)
                 ELSE closed(stdout)
    /\ UNCHANGED <<bridgeWs, forwarded, nRead, nReplies, unwritten, exited>>
    /\ UNCHANGED <<hostVars, cdpVars, targetVars>>

\* The closing handshake of the socket s begins: its readyState is CLOSING and no
\* handler has run.
BridgeClosing(s) ==
    /\ ~exited
    /\ s \in DOMAIN bridgeSocks
    /\ bridgeSocks[s] = "OPEN"
    /\ bridgeSocks' = [bridgeSocks EXCEPT ![s] = "CLOSING"]
    /\ UNCHANGED <<bridgeWs, connected, pendingRequests, requestTimers, connects,
                   forwarded, stdout, nRead, nReplies, unwritten, exited>>
    /\ UNCHANGED <<hostVars, cdpVars, targetVars>>

\* The 'close' handler of the socket s, which was open.
BridgeClose(s) ==
    /\ ~exited
    /\ s \in DOMAIN bridgeSocks
    /\ bridgeSocks[s] \in {"OPEN", "CLOSING"}
    /\ bridgeSocks' = [bridgeSocks EXCEPT ![s] = "CLOSED"]
    /\ connected' = FALSE
    /\ requestTimers' = requestTimers \ {pendingRequests[i] : i \in DOMAIN pendingRequests}
    /\ pendingRequests' = << >>
    /\ stdout' = closed(stdout)
    /\ UNCHANGED <<bridgeWs, connects, forwarded, nRead, nReplies, unwritten, exited>>
    /\ UNCHANGED <<hostVars, cdpVars, targetVars>>

\* The keys of pendingRequests.
has(key) == key.type = "number" /\ \E i \in DOMAIN pendingRequests : pendingRequests[i] = key.n

\* handleWebSocketMessage for an envelope from the host: payload.requestId is reqId,
\* the payload carries an error, a text result or an image; written tells whether
\* fs.writeFileSync stored the image or threw.
handleWebSocketMessage(reqId, payload, written) ==
    LET numReqId == IF reqId.type = "string" THEN parseInt(reqId) ELSE reqId
        actualKey == IF has(reqId) THEN reqId ELSE numReqId
    IN  IF has(reqId) \/ has(numReqId)
        THEN /\ requestTimers' = requestTimers \ {actualKey.n}
             /\ pendingRequests' = SelectSeq(pendingRequests, LAMBDA id : id # actualKey.n)
             /\ stdout' = IF payload = "error" THEN mcpSendError(stdout, reqId, "error")
                          ELSE IF payload = "image"
                          THEN IF written THEN mcpSendResponse(stdout, reqId, "screenshot")
                               ELSE stdout
                          ELSE mcpSendResponse(stdout, reqId, "text")
             /\ unwritten' = IF payload = "image" /\ ~written
                             THEN unwritten \cup {actualKey.n} ELSE unwritten
        ELSE UNCHANGED <<requestTimers, pendingRequests, stdout, unwritten>>

\* The host answers a request it received on the socket s, which still delivers.
BridgeMessage(s, id, payload, written) ==
    /\ ~exited
    /\ [id |-> id, sock |-> s] \in forwarded
    /\ bridgeSocks[s] \in {"OPEN", "CLOSING"}
    /\ written \/ payload = "image"
    /\ nReplies' = nReplies + 1
    /\ handleWebSocketMessage(StringOf(id), payload, written)
    /\ UNCHANGED <<bridgeWs, connected, bridgeSocks, connects, forwarded, nRead, exited>>
    /\ UNCHANGED <<hostVars, cdpVars, targetVars>>

\* The 60 s timer of the request id.
RequestTimeout(id) ==
    /\ ~exited
    /\ id \in requestTimers
    /\ requestTimers' = requestTimers \ {id}
    /\ IF has(NumberOf(id))
       THEN /\ pendingRequests' = SelectSeq(pendingRequests, LAMBDA p : p # id)
            /\ stdout' = mcpSendError(stdout, NumberOf(id), "Request timed out")
       ELSE UNCHANGED <<pendingRequests, stdout>>
    /\ UNCHANGED <<bridgeWs, connected, bridgeSocks, connects, forwarded, nRead,
                   nReplies, unwritten, exited>>
    /\ UNCHANGED <<hostVars, cdpVars, targetVars>>

InitProxy == InitHostVars /\ InitCDPVars /\ InitTargetVars /\ InitProxyVars

\* The proxy: requests read from stdin while sockets open, fail and close, the host
\* answers and the timers fire, in every order.
NextProxy ==
    \/ Start
    \/ nRead < MaxRequests /\ mcpHandleToolCall
    \/ \E s \in 1..(MaxRequests + 1), thrown \in BOOLEAN : BridgeOpen(s, thrown)
    \/ \E s \in 1..(MaxRequests + 1) : BridgeError(s)
    \/ \E s \in 1..(MaxRequests + 1) : BridgeClosing(s)
    \/ \E s \in 1..(MaxRequests + 1) : BridgeClose(s)
    \/ \E k \in 1..(MaxRequests + 1) : ConnectTimeout(k)
    \/ \E id \in 1..MaxRequests : RequestTimeout(id)
    \/ /\ nReplies < MaxReplies
       /\ \E s \in 1..(MaxRequests + 1), id \in 1..MaxRequests,
             payload \in {"text", "image", "error"}, written \in BOOLEAN :
             BridgeMessage(s, id, payload, written)

\* Both timers fire when armed: setTimeout callbacks run while the process lives.
SpecProxy ==
    /\ InitProxy /\ [][NextProxy]_vars
    /\ \A k \in 1..(MaxRequests + 1) : WF_vars(ConnectTimeout(k))
    /\ \A id \in 1..MaxRequests : WF_vars(RequestTimeout(id))

----------------------------------------------------------------------------
\* Properties of the dispatcher

\* The envelopes the call k produced.
EnvelopesOf(k) == {e \in delivered : e.call = k}
\* The envelopes written on client c's socket under envelope id `id`.
EnvelopesTo(c, id) == {e \in delivered : e.to = c /\ e.id = id}

\* C1: an envelope produced by dispatching a tool call received from client c1 is
\* never sent on the socket of another client c2.
C1_PerClientIsolation ==
    \A e \in delivered : e.to = calls[e.call].client

\* C2: two clients each have a call outstanding under the same envelope id and the
\* first disconnects before its response is emitted: once both calls have completed,
\* the client that stayed receives exactly one envelope for that id, the one its own
\* call produced, and the client that left receives none. (Each of the two calls is
\* its client's only call under that id.)
OnlyCallUnder(k) ==
    \A j \in 1..Len(calls) :
        (calls[j].client = calls[k].client /\ calls[j].id = calls[k].id) => j = k

C2_SameIdDisconnect ==
    \A p \in raced :
        LET k1 == p[1]
            k2 == p[2]
        IN (/\ calls[k1].state = "done"
            /\ calls[k2].state = "done"
            /\ calls[k2].client \in clients
            /\ OnlyCallUnder(k1)
            /\ OnlyCallUnder(k2))
           => /\ EnvelopesTo(calls[k2].client, calls[k2].id) = EnvelopesOf(k2)
              /\ Cardinality(EnvelopesOf(k2)) = 1
              /\ EnvelopesTo(calls[k1].client, calls[k1].id) = {}

\* C3: a tool call received from a client that stays connected produces, once it has
\* completed, exactly one envelope: on that client's socket, under the call's envelope
\* id, a result if the handler returned and an error if it threw or the tool is unknown.
C3_ExactlyOneReply ==
    \A k \in 1..Len(calls) :
        (calls[k].state = "done" /\ calls[k].client \in clients)
        => /\ Cardinality(EnvelopesOf(k)) = 1
           /\ \A e \in EnvelopesOf(k) :
                 /\ e.to = calls[k].client
                 /\ e.id = calls[k].id
                 /\ e.kind = (IF calls[k].outcome = "returned" THEN "result" ELSE "error")

\* C4: the routing map holds no entry of a client whose socket has closed, and the
\* completion of a call whose client has disconnected writes no envelope on any socket.
C4_DropAfterClose ==
    /\ \A x \in DOMAIN requestToClient : requestToClient[x] \in clients
    /\ \A e \in delivered : e.origConnected

\* The first half of C4 alone: no routing entry names a disconnected client.
NoRouteToClosedClient ==
    \A x \in DOMAIN requestToClient : requestToClient[x] \in clients

----------------------------------------------------------------------------
\* Properties of the session

\* C5: every send call settles exactly once: never twice; if it has settled, then
\* with the result or error of the response that answers this very command, or with
\* the timeout, or (nothing written) with the not-connected error; and a call that
\* has not settled yet holds its completers under its own id with its timer armed, so
\* that the firing of the timer settles it.
C5_SettlesExactlyOnce ==
    \A k \in 1..Len(sends) :
        LET c == sends[k] IN
        /\ c.settles <= 1
        /\ c.settles = 1 =>
              \/ c.outcome \in {"result", "error"} /\ c.by = k /\ k \in answered /\ c.id # 0
              \/ c.outcome = "timeout" /\ c.id # 0 /\ c.id \notin timers
              \/ c.outcome = "notconnected" /\ c.id = 0
        /\ c.settles = 0 =>
              /\ c.id \in timers
              /\ MapHas(pendingCommands, c.id)
              /\ pendingCommands[c.id] = k

\* A state where one command was settled by its response, another by its timeout,
\* and a socket has closed.
C5_Witness ==
    /\ \E k \in 1..Len(sends) : sends[k].outcome = "result" /\ sends[k].settles = 1
    /\ \E k \in 1..Len(sends) : sends[k].outcome = "timeout" /\ sends[k].settles = 1
    /\ \E s \in 1..Len(socks) : socks[s].state = "CLOSED"

\* C6: the step in which the bound socket closes rejects every pending command with
\* the not-connected error and leaves pendingCommands empty.
C6_CloseRejectsPending ==
    [][(ws # 0 /\ socks[ws].state # "CLOSED" /\ socks'[ws].state = "CLOSED")
        => /\ pendingCommands' = EmptyMap
           /\ \A k \in 1..Len(sends) :
                 sends[k].settles = 0 =>
                    sends'[k].settles = 1 /\ sends'[k].outcome = "notconnected"]_vars

\* C7: the event queue holds at most 1000 events and the registry at most 500 entries.
C7_BoundedCollections ==
    /\ Len(eventQueue) <= 1000
    /\ Len(networkRequests) <= 500

\* A state where both collections are full and have evicted: more events were
\* handled than the queue holds.
C7_Witness ==
    /\ Len(eventQueue) = 1000
    /\ Len(networkRequests) = 500
    /\ nEvents > 1000

\* C8: docVersion never decreases.
C8_DocVersionMonotonic == [][docVersion' >= docVersion]_vars

\* The event handled by a step that handles one.
HandledEvent == eventQueue'[Len(eventQueue')]

\* C9: handling DOM.documentUpdated, or Page.frameNavigated of a frame with no
\* parent, leaves docVersion greater than before, rootNodeId absent and every node
\* reference issued so far older than docVersion; Page.frameNavigated of a frame
\* with a parent changes neither docVersion nor rootNodeId.
C9_EventAdvancesVersion ==
    [][nEvents' = nEvents + 1 =>
         IF \/ HandledEvent.method = "DOM.documentUpdated"
            \/ HandledEvent.method = "Page.frameNavigated" /\ HandledEvent.parentId = 0
         THEN /\ docVersion' > docVersion
              /\ rootNodeId' = 0
              /\ \A r \in refs : r.docVersion < docVersion'
         ELSE HandledEvent.method = "Page.frameNavigated"
                 => docVersion' = docVersion /\ rootNodeId' = rootNodeId]_vars

\* C9 without its clause on the node references issued before.
AdvanceWithoutReferences ==
    [][nEvents' = nEvents + 1 =>
         IF \/ HandledEvent.method = "DOM.documentUpdated"
            \/ HandledEvent.method = "Page.frameNavigated" /\ HandledEvent.parentId = 0
         THEN docVersion' > docVersion /\ rootNodeId' = 0
         ELSE HandledEvent.method = "Page.frameNavigated"
                 => docVersion' = docVersion /\ rootNodeId' = rootNodeId]_vars

\* C10: a command that takes the node id of a reference older than the current
\* docVersion fails with StaleNode and is not written to the socket.
C10_StaleNodeRefused ==
    \A k \in 1..Len(sends) :
        sends[k].stale => sends[k].outcome = "stalenode" /\ sends[k].id = 0

----------------------------------------------------------------------------
\* Properties of the waits

\* C11: a step in which a waitForResponse call with HTTP method m resolves delivers a
\* Network.responseReceived event whose requestId is in the registry with the method
\* m, the method the page announced that request with; the type of the event plays
\* no part.
C11_ResponseMatchesTrackedMethod ==
    [][\A w \in 1..Len(waits) :
          (/\ waits[w].op = "waitForResponse" /\ waits[w].filter # ""
           /\ waits[w].state = "pending" /\ waits'[w].state = "resolved")
          => LET e == waits'[w].with IN
             /\ e.method = "Network.responseReceived"
             /\ \E i \in 1..Len(networkRequests) :
                   /\ networkRequests[i].requestId = e.requestId
                   /\ networkRequests[i].method = waits[w].filter
             /\ MethodOf(e.requestId) = waits[w].filter]_vars

\* A state where the registry has evicted the oldest request, a response for that
\* request has arrived and was passed over, and the wait has then resolved with the
\* response of a tracked request.
C11_Witness ==
    /\ Len(networkRequests) = maxNetworkRequests
    /\ networkRequests[1].requestId > 1
    /\ \E i \in 1..Len(eventQueue) :
          eventQueue[i].method = "Network.responseReceived" /\ eventQueue[i].requestId = 1
    /\ \E w \in 1..Len(waits) :
          /\ waits[w].op = "waitForResponse" /\ waits[w].state = "resolved"
          /\ waits[w].filter = "GET" /\ waits[w].with.requestId > 1

\* The CDP events handled so far were all requests of type WebSocket.
OnlyWebSockets(q) ==
    \A i \in 1..Len(q) :
        q[i].method = "Network.requestWillBeSent" /\ q[i].type = "WebSocket"

\* C12: handling a Network.requestWillBeSent event of type WebSocket changes neither
\* the in-flight counter nor the idle timer of any waitForNetworkIdle call, and an
\* unsettled call with nothing in flight (as it starts, and stays while WebSocket
\* requests are all that happens) has its idle timer armed, whose firing resolves it.
C12_WebSocketIgnored ==
    [][/\ (/\ nEvents' = nEvents + 1
           /\ HandledEvent.method = "Network.requestWillBeSent"
           /\ HandledEvent.type = "WebSocket")
          => \A w \in 1..Len(waits) :
                waits[w].op = "waitForNetworkIdle"
                => /\ waits'[w].inflight = waits[w].inflight
                   /\ waits'[w].idleTimer = waits[w].idleTimer
       /\ \A w \in 1..Len(waits') :
             (/\ waits'[w].op = "waitForNetworkIdle" /\ waits'[w].state = "pending"
              /\ waits'[w].inflight = 0)
             => waits'[w].idleTimer]_vars

\* A state where a waitForNetworkIdle call has resolved on a session whose only
\* events were two WebSocket requests.
C12_Witness ==
    /\ Len(eventQueue) = 2
    /\ OnlyWebSockets(eventQueue)
    /\ \E w \in 1..Len(waits) :
          waits[w].op = "waitForNetworkIdle" /\ waits[w].state = "resolved"

\* C13: every unsettled waitForNetworkIdle call whose in-flight counter is at most
\* its maxInflight has its idle timer armed.
C13_IdleTimerArmed ==
    \A w \in 1..Len(waits) :
        (/\ waits[w].op = "waitForNetworkIdle" /\ waits[w].state = "pending"
         /\ waits[w].inflight <= waits[w].maxInflight)
        => waits[w].idleTimer

\* C14: a wait called with a timeout of 0 ms, directly or through a tool, never
\* resolves with an event.
C14_ZeroTimeoutRejects ==
    \A w \in 1..Len(waits) :
        waits[w].asked = 0 => waits[w].state # "resolved"

\* C16: the Page.handleJavaScriptDialog command that waitForDialog sends after a
\* dialog opened carries promptText only if that dialog has the type prompt.
C16_PromptTextOnlyForPrompt ==
    \A w \in 1..Len(waits) :
        (/\ waits[w].op = "waitForDialog" /\ waits[w].sent # 0
         /\ sends[waits[w].sent].text # "absent")
        => waits[w].with.type = "prompt"

\* C17: a waitForLoad call resolves only with a lifecycle event of the name it waits
\* for that belongs to the top frame.
C17_LoadOfMainFrame ==
    \A w \in 1..Len(waits) :
        (waits[w].op = "waitForLoad" /\ waits[w].state = "resolved")
        => /\ waits[w].with.method = "Page.lifecycleEvent"
           /\ waits[w].with.name = waits[w].filter
           /\ waits[w].with.frame = "main"

\* The name alone: a waitForLoad call resolves only with a lifecycle event of the
\* name it waits for.
LoadOfRequestedName ==
    \A w \in 1..Len(waits) :
        (waits[w].op = "waitForLoad" /\ waits[w].state = "resolved")
        => /\ waits[w].with.method = "Page.lifecycleEvent"
           /\ waits[w].with.name = waits[w].filter

\* C18: when a Page.fileChooserOpened event is handled, every waitForFileChooser call
\* that has started and not settled resolves with it.
C18_FileChooserNotLost ==
    [][(nEvents' = nEvents + 1 /\ HandledEvent.method = "Page.fileChooserOpened")
        => \A w \in 1..Len(waits) :
              (/\ waits[w].op = "waitForFileChooser"
               /\ waits[w].state \in {"starting", "pending"})
              => waits'[w].state = "resolved"]_vars

\* The event reaches every call whose listener is registered.
FileChooserReachesListeners ==
    [][(nEvents' = nEvents + 1 /\ HandledEvent.method = "Page.fileChooserOpened")
        => \A w \in 1..Len(waits) :
              (waits[w].op = "waitForFileChooser" /\ waits[w].state = "pending")
              => waits'[w].state = "resolved"]_vars

----------------------------------------------------------------------------
\* Properties of target discovery

PagesOf(ts) == {t \in ts : t.type = "page"}

\* C15: a numeric reference k resolves to the page target that has exactly k page
\* targets with a smaller id when 0 <= k < n, n the number of page targets, and fails
\* as out of range when k < 0 or k >= n; the same k always resolves the same way,
\* whatever order the targets were listed in.
C15_IndexResolution ==
    /\ \A r \in resolutions :
          IF 0 <= r.index /\ r.index < Cardinality(PagesOf(targets))
          THEN /\ r.error = ""
               /\ \E t \in PagesOf(targets) :
                     /\ t.id = r.id
                     /\ Cardinality({u \in PagesOf(targets) : u.id < t.id}) = r.index
          ELSE r.error = "out of range"
    /\ \A r1, r2 \in resolutions : r1.index = r2.index => r1 = r2

\* A state where, of three targets last listed in descending order of id with a
\* target that is no page between two pages, index 1 was resolved to the page with
\* the largest id and index 2, the number of pages, was refused.
C15_Witness ==
    /\ Len(listed) = 3
    /\ listed[1].id = 3 /\ listed[2].id = 2 /\ listed[3].id = 1
    /\ listed[2].type = "other" /\ Cardinality(PagesOf(targets)) = 2
    /\ [index |-> 1, error |-> "", id |-> 3] \in resolutions
    /\ [index |-> 2, error |-> "out of range", id |-> 0] \in resolutions

----------------------------------------------------------------------------
\* Properties of the tabs

\* C19: every command sent on behalf of a tool call that names a tab is written to a
\* socket bound to the target the tab resolves to, and no socket on which such a
\* command is outstanding is closed by this side.
C19_CommandsReachTheirTab ==
    [][/\ \A k \in 1..Len(sends') :
             (sends'[k].tab \notin {"", "none"} /\ sends'[k].sock # 0)
             => socks'[sends'[k].sock].target = ResolveTarget(sends'[k].tab)
       /\ \A k \in 1..Len(sends) :
             (/\ sends[k].tab \notin {"", "none"} /\ sends[k].settles = 0
              /\ socks[sends[k].sock].state = "OPEN")
             => socks'[sends[k].sock].state # "CLOSING"]_vars

\* The number of connectToTarget calls with reference ref that wait for the target
\* list.
FetchingFor(cs, ref) ==
    Cardinality({c \in 1..Len(cs) : cs[c].pc = "getTargets" /\ cs[c].ref = ref})

\* C20: a connectToTarget call made while a socket is open with no reference, or with
\* the id of the bound target, returns without fetching the target list, and the
\* step in which it returns creates no socket, sends no enabling command and leaves
\* the binding, the enabled domains, the listeners, the event queue, the registry,
\* docVersion and rootNodeId as they are; and so does the step in which a call has
\* its reference resolved to the bound target while the socket is open.
C20_OpenSessionReused ==
    [][/\ Len(conns') > Len(conns)
          => ~(IsOpen(Session) /\ conns'[Len(conns')].ref \in {"none", targetId})
       /\ (/\ IsOpen(Session) /\ conns' = conns /\ answered' = answered
           /\ nEvents' = nEvents /\ Len(sends') > Len(sends))
          => /\ socks' = socks /\ ws' = ws /\ targetId' = targetId
             /\ domainsEnabled' = domainsEnabled
             /\ eventListeners' = eventListeners
             /\ eventQueue' = eventQueue
             /\ networkRequests' = networkRequests
             /\ docVersion' = docVersion /\ rootNodeId' = rootNodeId
             /\ \A k \in (Len(sends) + 1)..Len(sends') :
                   sends'[k].cont # "enable"
       /\ \A ref \in {"none", "#0", "#1", "A", "B"} :
             (/\ FetchingFor(conns', ref) < FetchingFor(conns, ref)
              /\ IsOpen(Session) /\ ResolveTarget(ref) = targetId)
             => /\ socks' = socks /\ ws' = ws /\ targetId' = targetId
                /\ domainsEnabled' = domainsEnabled
                /\ eventListeners' = eventListeners
                /\ eventQueue' = eventQueue
                /\ networkRequests' = networkRequests
                /\ docVersion' = docVersion /\ rootNodeId' = rootNodeId
                /\ \A k \in (Len(sends) + 1)..Len(sends') :
                      sends'[k].cont # "enable"]_vars

\* A state where two tool calls for tab 0 have sent their commands on the one socket
\* ever created, whose domains were enabled once, after the document was updated.
C20_Witness ==
    /\ Len(socks) = 1
    /\ docVersion = 1
    /\ Cardinality({k \in 1..Len(sends) : sends[k].method = "Page.enable"}) = 1
    /\ Cardinality({k \in 1..Len(sends) :
                       /\ sends[k].method = "Network.getCookies"
                       /\ sends[k].tab = "#0" /\ sends[k].sock = 1}) = 2

----------------------------------------------------------------------------
\* Properties of reconnection

\* The send calls before k that wrote an enabling command on the socket of k.
EnabledBefore(sq, k) ==
    {sq[j].method : j \in {i \in 1..(k - 1) : /\ sq[i].cont = "enable" /\ sq[i].id # 0
                                              /\ sq[i].sock = sq[k].sock}}

\* C21: the command of a tool call made after the browser closed the bound socket is
\* written, not refused as not connected, to a socket created after the close, on
\* which the commands that enable the four domains were written before it.
C21_ReconnectsAfterLoss ==
    [][\A k \in (Len(sends) + 1)..Len(sends') :
          (sends'[k].method = "Network.getCookies" /\ Closed # {})
          => /\ sends'[k].id # 0
             /\ \A s \in Closed : sends'[k].sock > s
             /\ {"Page.enable", "Runtime.enable", "Network.enable", "DOM.enable"}
                   \subseteq EnabledBefore(sends', k)]_vars

----------------------------------------------------------------------------
\* Properties of the tools

\* p has the form /mnt/<d>/<rest>, <d> one letter.
HasDriveForm(p) ==
    /\ Len(p) >= 7
    /\ SubSeq(p, 1, 5) = <<"/", "m", "n", "t", "/">>
    /\ p[6] # "/"
    /\ p[7] = "/"

\* <D>:\<rest> with every slash of <rest> a backslash.
DrivePath(p) ==
    <<UpperCase(p[6]), ":", "\\">>
        \o [i \in 1..(Len(p) - 7) |-> IF p[i + 7] = "/" THEN "\\" ELSE p[i + 7]]

\* C22: the list file_upload passes to DOM.setFileInputFiles has the length of
\* args.files, and its i-th path is <D>:\<rest> when the i-th path of args.files has
\* the form /mnt/<d>/<rest>, and that path unchanged otherwise.
C22_PathsTranslated ==
    \A u \in 1..Len(uploads) :
        /\ Len(uploads[u].files) = Len(uploads[u].args)
        /\ \A i \in 1..Len(uploads[u].args) :
              uploads[u].files[i] = IF HasDriveForm(uploads[u].args[i])
                                    THEN DrivePath(uploads[u].args[i])
                                    ELSE uploads[u].args[i]

\* C23: the result of a screenshot has type "image", and its data is the base64
\* string that Page.captureScreenshot returned, not an object around it.
C23_ScreenshotIsBase64 ==
    \A i \in 1..Len(results) :
        results[i].tool = "computer"
        => /\ results[i].type = "image"
           /\ results[i].data.kind = "string"
           /\ results[i].data.data \in Images

----------------------------------------------------------------------------
\* Properties of command correlation

\* The send calls that wrote command id.
WroteId(sq, id) == {k \in 1..Len(sq) : sq[k].id = id}

\* C26: the close callback of a socket that is not the bound one leaves ws, targetId,
\* the listeners, the event queue, the registry, the enabled domains, docVersion and
\* rootNodeId as they are.
C26_StaleCloseChangesNothing ==
    [][\A s \in 1..Len(socks) :
          (socks[s].state # "CLOSED" /\ socks'[s].state = "CLOSED" /\ s # ws)
          => /\ ws' = ws /\ targetId' = targetId
             /\ eventListeners' = eventListeners
             /\ eventQueue' = eventQueue
             /\ networkRequests' = networkRequests
             /\ domainsEnabled' = domainsEnabled
             /\ docVersion' = docVersion /\ rootNodeId' = rootNodeId]_vars

\* A state where the superseded socket has closed and the session bound to B still
\* has its domains, its listener, its queue, its registry and its document version.
C26_Witness ==
    /\ HasState
    /\ ws = 2 /\ targetId = "B"
    /\ socks[1].state = "CLOSED"

C28_FifoEviction ==
    [][(Len(eventQueue) = 1000 /\ nEvents' = nEvents + 1)
       => /\ Len(eventQueue') = 1000
          /\ \A i \in 1..999 : eventQueue'[i] = eventQueue[i + 1]
          /\ eventQueue'[1000].requestId = nEvents + 1]_vars

\* A state where the event numbered 1001 was handled by a full queue: it is last,
\* and the event numbered 2 is first.
C28_Witness ==
    /\ Len(eventQueue) = 1000
    /\ eventQueue[1].requestId = 2
    /\ eventQueue[1000].requestId = 1001

\* The timers armed belong to waits that have not settled.
WaitTimersOfPending ==
    \A w \in 1..Len(waits) : waits[w].timer => waits[w].state = "pending"

\* C29: every armed command timer belongs to a send call that has not settled, and
\* every armed wait timer to a wait that has not settled.
C29_NoTimerOfSettled ==
    /\ \A id \in timers : \E k \in 1..Len(sends) : sends[k].id = id /\ sends[k].settles = 0
    /\ WaitTimersOfPending

\* The send calls that wrote a command.
Written == {k \in 1..Len(sends) : sends[k].id # 0}

\* C25: the ids of the commands written are strictly increasing in the order of the
\* send calls, so that no id is written twice, on whatever socket.
C25_IdsIncrease ==
    \A j, k \in Written : j < k => sends[j].id < sends[k].id

\* A state where three commands were written with the ids 1, 2 and 3, the first of
\* them timed out, the socket it was written on has closed, and a later one was
\* written on another socket, bound to another target.
C25_Witness ==
    /\ Written = {1, 2, 3}
    /\ sends[1].id = 1 /\ sends[2].id = 2 /\ sends[3].id = 3
    /\ sends[1].outcome = "timeout"
    /\ socks[sends[1].sock].state = "CLOSED"
    /\ sends[3].sock # sends[1].sock
    /\ socks[sends[3].sock].target # socks[sends[1].sock].target

\* C24: pendingCommands has an entry for id exactly when a send call has written
\* command id and has not settled; an entry goes away only in the step in which its
\* call settles, by the response or by the timeout; and the response to a command
\* that has settled before changes nothing in the session: no command, timer, wait,
\* queue or registry.
C24_PendingIffUnsettled ==
    /\ [](\A id \in 1..messageId :
            MapHas(pendingCommands, id)
            <=> \E k \in WroteId(sends, id) : sends[k].settles = 0)
    /\ [][/\ \A id \in DOMAIN pendingCommands :
               ~MapHas(pendingCommands', id)
               => LET k == pendingCommands[id] IN
                  /\ sends[k].settles = 0 /\ sends'[k].settles = 1
                  /\ sends'[k].outcome \in {"result", "error", "timeout"}
          /\ \A k \in answered' \ answered :
               sends[k].settles >= 1 => Session' = Session]_vars

\* A state where a command has timed out and its response has arrived after that,
\* another command was settled by its response, and no entry is left.
C24_Witness ==
    /\ \E k \in answered : sends[k].outcome = "timeout" /\ sends[k].settles = 1
    /\ \E k \in answered : sends[k].outcome = "result" /\ sends[k].settles = 1
    /\ messageId = 2 /\ pendingCommands = EmptyMap

----------------------------------------------------------------------------
\* Properties of event subscription

\* The listeners that wait w registers while it is unsettled.
ListenersOf(sq, w) ==
    IF sq[w].op = "waitForNetworkIdle"
    THEN {[method |-> m, w |-> w] : m \in {"Network.requestWillBeSent",
                                            "Network.loadingFinished",
                                            "Network.loadingFailed"}}
    ELSE {[method |-> sq[w].method, w |-> w]}

\* The listeners of the waits that have not settled.
ListenersOfPending ==
    UNION {ListenersOf(waits, w) : w \in {v \in 1..Len(waits) : waits[v].state = "pending"}}

\* Every registered listener is a listener of a wait that has not settled, and the
\* step in which a wait settles leaves none of its listeners registered.
SettledWaitsHaveNoListener ==
    /\ [](eventListeners \subseteq ListenersOfPending)
    /\ [][\A w \in 1..Len(waits) :
             waits[w].state = "pending" /\ waits'[w].state # "pending"
             => \A l \in eventListeners' : l.w # w]_vars

\* C30: when a waitForEvent or waitForNetworkIdle call settles, by resolving or by
\* its timeout, its listeners are removed in the same step; no listener of a settled
\* wait stays registered; and eventListeners is exactly the set of the listeners of
\* the waits that have not settled (the client makes no other subscription).
C30_SubscribersOfUnsettledWaits ==
    /\ [](eventListeners = ListenersOfPending)
    /\ [][\A w \in 1..Len(waits) :
             waits[w].state = "pending" /\ waits'[w].state # "pending"
             => \A l \in eventListeners' : l.w # w]_vars

\* The wait calls that are built on waitForEvent.
EventWaits(sq) == {w \in 1..Len(sq) : sq[w].op # "waitForNetworkIdle"}

\* C31: a waitForEvent call resolves only in the step in which the session handles an
\* event of its method, while the call is registered and pending, and with that very
\* event (the one the step appends to the event queue); a call is never resolved by
\* its registration, whatever the event queue holds, and a call that was not resolved
\* by an event ends only by its timeout.
C31_NoReplayOfQueuedEvents ==
    [][/\ \A w \in EventWaits(waits') :
            /\ waits'[w].state = "resolved"
            /\ (w > Len(waits) \/ waits[w].state # "resolved")
            => /\ w <= Len(waits) /\ waits[w].state = "pending"
               /\ [method |-> waits[w].method, w |-> w] \in eventListeners
               /\ nEvents' = nEvents + 1
               /\ eventQueue' # << >>
               /\ LET e == eventQueue'[Len(eventQueue')] IN
                  /\ e.method = waits[w].method
                  /\ waits'[w].with.method = e.method
                  /\ waits'[w].with.type = e.type
                  /\ waits'[w].with.requestId = e.requestId
       /\ \A w \in EventWaits(waits) :
            waits[w].state = "pending" /\ waits'[w].state \notin {"pending", "resolved"}
            => waits'[w].state = "timeout" /\ waits[w].timer /\ nEvents' = nEvents]_vars

\* A state where the first dialog wait resolved with the one dialog the browser
\* opened, the dialog is in the event queue, and a second dialog wait, which can only
\* have been registered after it, is registered and still pending.
C31_Witness ==
    /\ Len(waits) = 2 /\ nEvents = 1
    /\ waits[1].op = "waitForDialog" /\ waits[1].state = "resolved"
    /\ waits[1].with.type = "alert"
    /\ waits[2].op = "waitForDialog" /\ waits[2].state = "pending" /\ waits[2].timer
    /\ [method |-> "Page.javascriptDialogOpening", w |-> 2] \in eventListeners
    /\ Len(eventQueue) = 1 /\ eventQueue[1].method = "Page.javascriptDialogOpening"

\* The callback wait w registered would throw on the queued event e.
ThrowsOn(sq, w, e) ==
    sq[w].op = "waitForResponse" /\ sq[w].url # "" /\ e.url = "absent"

----------------------------------------------------------------------------
\* Properties of the routing map

\* The tool calls in flight: handleToolCall has not emitted yet.
InFlight == {k \in 1..Len(calls) : calls[k].state = "running"}

\* C33: every entry of the routing map is the entry of a call in flight (its key is
\* String of the call's envelope id, its value the call's client, still connected),
\* so the map is empty whenever no call is in flight; the step that emits an envelope
\* leaves no entry under its key, and an entry goes away only in a step that emits an
\* envelope under its key or in which its client disconnects.
C33_RoutesOnlyOfCallsInFlight ==
    /\ [](\A x \in DOMAIN requestToClient :
            /\ requestToClient[x] \in clients
            /\ \E k \in InFlight :
                  String(calls[k].id) = x /\ calls[k].client = requestToClient[x])
    /\ [](InFlight = {} => requestToClient = EmptyMap)
    /\ [][/\ \A e \in delivered' \ delivered : String(e.id) \notin DOMAIN requestToClient'
          /\ \A x \in DOMAIN requestToClient :
                x \notin DOMAIN requestToClient'
                => \/ \E e \in delivered' \ delivered : String(e.id) = x
                   \/ requestToClient[x] \notin clients']_vars

\* A state where two calls, received under the same envelope key from different
\* clients, have completed, one client has disconnected, and the map is empty.
C33_Witness ==
    /\ Len(calls) = 2 /\ InFlight = {}
    /\ \E j, k \in 1..Len(calls) :
          /\ String(calls[j].id) = String(calls[k].id)
          /\ calls[j].client # calls[k].client
          /\ calls[j].outcome = "returned" /\ calls[k].outcome = "returned"
    /\ Cardinality(clients) = 1 /\ clientCounter = 2
    /\ delivered # {}
    /\ requestToClient = EmptyMap

----------------------------------------------------------------------------
\* Properties of the document root

\* Send call k is a query scoped to the document root: it carries a node id that
\* DOM.getDocument gives.
RootScoped(k) ==
    /\ sends[k].method = "DOM.querySelector"
    /\ sends[k].nodeId \in ResultValues("DOM.getDocument")

\* C34: every root-scoped query that is written carries a root node id obtained by
\* a DOM.getDocument answered on the socket the query is written to, and a step
\* that binds the session to another target leaves rootNodeId absent.
C34_RootIdOfBoundSocket ==
    /\ [](\A k \in 1..Len(sends) :
            RootScoped(k) /\ sends[k].id # 0
            => \E g \in 1..(k - 1) :
                  /\ sends[g].method = "DOM.getDocument"
                  /\ sends[g].outcome = "result"
                  /\ sends[g].sock = sends[k].sock)
    /\ [][(targetId # "null" /\ targetId' # "null" /\ targetId' # targetId)
          => rootNodeId' = 0]_vars

\* The first half of C34 for the queries written to the first socket of the session.
RootIdOfFirstSocket ==
    \A k \in 1..Len(sends) :
        RootScoped(k) /\ sends[k].id # 0 /\ sends[k].sock = 1
        => \E g \in 1..(k - 1) :
              /\ sends[g].method = "DOM.getDocument"
              /\ sends[g].outcome = "result"
              /\ sends[g].sock = 1

\* C35: an event handled while the bound socket cannot deliver (there is none, or it
\* has not opened yet) comes from a socket the session has left; it reaches no
\* listener, is not queued, advances docVersion by nothing, leaves rootNodeId and
\* the registry as they are.
C35_StaleSocketMessageIgnored ==
    [][(nEvents' = nEvents + 1 /\ (ws = 0 \/ ~Delivers(ws)))
       => /\ eventQueue' = eventQueue
          /\ eventListeners' = eventListeners
          /\ waits' = waits
          /\ docVersion' = docVersion
          /\ rootNodeId' = rootNodeId
          /\ networkRequests' = networkRequests]_vars

----------------------------------------------------------------------------
\* Properties of the wait for network idle

\* Request requestId has been announced and neither finished nor failed since.
Unfinished(requestId) ==
    \E i \in 1..Len(networkRequests) :
        networkRequests[i].requestId = requestId /\ ~networkRequests[i].finished

\* C36: under SpecBusy, where request 2 is the request announced while the first
\* waitForNetworkIdle call (maxInflight 0) is pending, that call resolves only in a
\* step before which request 2 is not unfinished, whatever request 1, announced
\* before the call, does.
C36_IdleOnlyWhenOwnRequestsDone ==
    [][(/\ waits # << >>
        /\ waits[1].op = "waitForNetworkIdle" /\ waits[1].maxInflight = 0
        /\ waits[1].state = "pending" /\ waits'[1].state = "resolved")
       => ~Unfinished(2)]_vars

\* C36 for the runs in which no request was announced before the call.
IdleWhenAllAnnouncedDone ==
    [][(/\ waits # << >>
        /\ waits[1].state = "pending" /\ waits'[1].state = "resolved"
        /\ \A i \in 1..Len(eventQueue) : eventQueue[i].requestId # 1)
       => ~Unfinished(2)]_vars

----------------------------------------------------------------------------
\* Properties of concurrent connection

\* C37: under SpecBoth, where every tool call has no tabId and is made while no
\* socket is open, the command of each call is written, not refused as not
\* connected, to a socket of the first page target; and once every call has sent its
\* command, at most one socket is open or opening, and it is the bound one.
C37_ConcurrentCallsShareSession ==
    /\ [][\A k \in (Len(sends) + 1)..Len(sends') :
             sends'[k].method = "Network.getCookies"
             => /\ sends'[k].id # 0
                /\ socks'[sends'[k].sock].target = PageTargets[1]]_vars
    /\ [](conns = << >> => Live \subseteq {ws})

\* C37 for a tool call that is the only one made so far.
SingleCallConnects ==
    [][\A k \in (Len(sends) + 1)..Len(sends') :
          (sends'[k].method = "Network.getCookies" /\ ToolCalls' = 1)
          => /\ sends'[k].id # 0
             /\ socks'[sends'[k].sock].target = PageTargets[1]
             /\ Live' = {ws'}]_vars

----------------------------------------------------------------------------
\* Properties of the tab id

\* C38: the command of a tool call made with tabId 0, by navigate as by cookies_get,
\* is written to a socket of the first page target in id order.
C38_TabZeroIsFirstPage ==
    [][\A k \in (Len(sends) + 1)..Len(sends') :
          (/\ sends'[k].tab = IndexRefs[1]
           /\ sends'[k].method \in {"Network.getCookies", "Page.navigate"})
          => /\ sends'[k].id # 0
             /\ socks'[sends'[k].sock].target = PageTargets[1]]_vars

\* C38 for the handlers that go through ensureConnected.
TabZeroThroughEnsureConnected ==
    [][\A k \in (Len(sends) + 1)..Len(sends') :
          (sends'[k].tab = IndexRefs[1] /\ sends'[k].method = "Network.getCookies")
          => /\ sends'[k].id # 0
             /\ socks'[sends'[k].sock].target = PageTargets[1]]_vars

----------------------------------------------------------------------------
\* Properties of termination

\* C39: every waitForEvent and waitForNetworkIdle call that is pending is settled
\* later on, resolved or rejected, given that an armed timeout timer fires; also when
\* the socket closes or the session switches target while the call is pending.
C39_EveryWaitSettles ==
    \A w \in 1..SettleWaits :
        (Len(waits) >= w /\ waits[w].state = "pending")
        ~> (Len(waits) >= w /\ waits[w].state # "pending")

\* A state where the socket has closed and the listeners are cleared, one wait has
\* ended by its timeout and a wait of the other kind is still pending, its timer armed.
C39_Witness ==
    /\ Len(waits) = 2 /\ waits[1].op # waits[2].op
    /\ socks # << >> /\ socks[1].state = "CLOSED" /\ ws = 0
    /\ eventListeners = {}
    /\ waits[1].state = "timeout"
    /\ waits[2].state = "pending" /\ waits[2].timer

----------------------------------------------------------------------------
\* Properties of the proxy

\* The messages of stdout that answer the request id: those carrying its id, as the
\* number read from stdin or as the string of the envelope.
AnswersTo(id) == {i \in DOMAIN stdout : stdout[i].id.n = id}

\* C40: every tools/call request read from stdin is answered with exactly one message
\* on stdout: none is ever answered twice, and each is eventually answered.  The
\* statement is checked for the runs the claim has in mind: a request is excused once
\* the process has terminated or its screenshot could not be stored.
C40_EveryCallAnsweredOnce ==
    /\ [](\A id \in 1..MaxRequests : Cardinality(AnswersTo(id)) <= 1)
    /\ \A id \in 1..MaxRequests :
           (nRead >= id) ~> (Cardinality(AnswersTo(id)) = 1 \/ exited \/ id \in unwritten)

\* The claim to the letter: every request read is eventually answered once.
EveryCallAnswered ==
    \A id \in 1..MaxRequests : (nRead >= id) ~> (Cardinality(AnswersTo(id)) = 1)

\* The half of C40 that holds: no request is answered twice, and none before it was
\* read.
NoCallAnsweredTwice ==
    \A id \in 1..MaxRequests :
        Cardinality(AnswersTo(id)) <= (IF id <= nRead THEN 1 ELSE 0)

\* The connection attempts the request id awaits.
Awaiting(id) == {k \in DOMAIN connects : connects[k].call = id /\ connects[k].state = "pending"}

\* A request stored in pendingRequests leaves it: it is answered, or its screenshot
\* could not be stored, or the process terminates.
StoredCallAnswered ==
    \A id \in 1..MaxRequests :
        has(NumberOf(id)) ~> (Cardinality(AnswersTo(id)) = 1 \/ exited \/ id \in unwritten)

\* A call whose connection attempt ends with an error while this.connected is true
\* awaits a promise that nothing settles.
AwaitedAttemptCanSettle ==
    \A k \in DOMAIN connects :
        connects[k].state = "pending" => connects[k].timeout
====
